---- MODULE Spec2Model ----
(***************************************************************************)
(* Loomis-head geometry engine: the polyline utilities (splitFrontBack,    *)
(* clipToSideBand) and the parametric landmark model (calculateLandmarks). *)
(*                                                                         *)
(* Number representation for the polyline utilities.  A point is a record  *)
(* [x, y, z] of integers.  x and the band half-width d are counted in      *)
(* units of EPS/2 (EPS = 1e-6 in the source), so that coordinates inside   *)
(* the band, inside the tolerance zone (d, d+EPS] and outside all occur,   *)
(* as do edges with 0 < |dx| < EPS.  y and z are counted in units of       *)
(* 1/YZUnit, YZUnit being a common multiple of every possible dx, which    *)
(* makes every linear interpolation the clipper performs exact: the model  *)
(* is the real-number semantics of the floating-point code.                *)
(***************************************************************************)
EXTENDS Integers, Sequences, FiniteSets, TLC

VARIABLES points, d, params, rotation, pan, canvas, landmarks3D, transformed, out, pc,
          ui, heap

vars == <<points, d, params, rotation, pan, canvas, landmarks3D, transformed, out, pc,
          ui, heap>>

(* ------------------------------ bounds -------------------------------- *)

\* longest input polyline
MaxLen == 3

\* largest |x| of an input point, in units of EPS/2
MaxX == 4

\* largest |z| of an input point of splitFrontBack
MaxZ == 1
MaxCalls == 3
MaxMoves == 2

(* ----------------------------- arithmetic ----------------------------- *)

Abs(a) == IF a < 0 THEN -a ELSE a

RECURSIVE Gcd(_, _)
Gcd(a, b) == IF b = 0 THEN Abs(a) ELSE Gcd(b, a % b)

RECURSIVE LcmUpTo(_)
LcmUpTo(n) == IF n <= 1 THEN 1 ELSE LET l == LcmUpTo(n - 1) IN (l * n) \div Gcd(l, n)

\* scale of the y and z coordinates: every dx in 1..2*MaxX divides it
YZUnit == LcmUpTo(2 * MaxX)

Vector3(px, py, pz) == [x |-> px, y |-> py, z |-> pz]

RECURSIVE Flatten(_)
Flatten(ss) == IF ss = <<>> THEN <<>> ELSE Head(ss) \o Flatten(Tail(ss))

(* --------------------------- splitFrontBack --------------------------- *)

\* faulty variant: z = 0 counted as back
IsFrontStrict(point) == point.z > 0

\* const isFront = point.z >= 0
IsFront(point) == point.z >= 0

\* one iteration of the for loop; st = [front, back, currentFront, currentBack]
SplitStep(st, point) ==
    IF IsFront(point)
    THEN [front        |-> st.front,
          back         |-> IF Len(st.currentBack) > 0
                           THEN Append(st.back, st.currentBack) ELSE st.back,
          currentFront |-> Append(st.currentFront, point),
          currentBack  |-> <<>>]
    ELSE [front        |-> IF Len(st.currentFront) > 0
                           THEN Append(st.front, st.currentFront) ELSE st.front,
          back         |-> st.back,
          currentFront |-> <<>>,
          currentBack  |-> Append(st.currentBack, point)]

RECURSIVE SplitLoop(_, _, _)
SplitLoop(pts, i, st) ==
    IF i > Len(pts) THEN st ELSE SplitLoop(pts, i + 1, SplitStep(st, pts[i]))

SplitInit == [front |-> <<>>, back |-> <<>>, currentFront |-> <<>>, currentBack |-> <<>>]

\* faulty variant: the runs still open when the loop ends are not pushed
splitFrontBackNoTail(pts) ==
    LET st == SplitLoop(pts, 1, SplitInit)
    IN  [front |-> st.front, back |-> st.back]

splitFrontBack(pts) ==
    LET st == SplitLoop(pts, 1, SplitInit)
    IN  [front |-> IF Len(st.currentFront) > 0
                   THEN Append(st.front, st.currentFront) ELSE st.front,
         back  |-> IF Len(st.currentBack) > 0
                   THEN Append(st.back, st.currentBack) ELSE st.back]

(* --------------------------- clipToSideBand --------------------------- *)

\* const EPS = 1e-6, in units of EPS/2
EPS == 2

\* lerpVectors(p0, p1, t) with t = tn/td
lerp3(p0, p1, tn, td) ==
    Vector3(p0.x + ((p1.x - p0.x) * tn) \div td,
            p0.y + ((p1.y - p0.y) * tn) \div td,
            p0.z + ((p1.z - p0.z) * tn) \div td)

\* the crossing of edge p0-p1 with x = boundary, as a sequence: <<>> is null
intersectX(p0, p1, boundary) ==
    LET dx == p1.x - p0.x
        tn == boundary - p0.x
    IN  IF Abs(dx) < EPS THEN <<>>
        ELSE IF (dx > 0 /\ 0 <= tn /\ tn <= dx) \/ (dx < 0 /\ dx <= tn /\ tn <= 0)
             THEN <<lerp3(p0, p1, tn, dx)>>
             ELSE <<>>

\* faulty variant: the tolerance is applied twice
isInsideWide(p, dd) == Abs(p.x) <= dd + 2 * EPS

isInside(p, dd) == Abs(p.x) <= dd + EPS

\* faulty variant: the first point is never pushed
FirstPointDropped(st, curr, dd) == st

\* i === 0: the first point opens the current segment when it is inside
FirstPoint(st, curr, dd) ==
    IF isInside(curr, dd)
    THEN [st EXCEPT !.currentSegment = Append(st.currentSegment, curr)]
    ELSE st

\* prevInside && currInside
BothInside(st, curr) == [st EXCEPT !.currentSegment = Append(st.currentSegment, curr)]

\* faulty variant: the closed segment is pushed whatever its length
ExitingKeepShort(st, prev, curr, dd) ==
    LET boundary == IF curr.x > dd THEN dd ELSE -dd
        seg      == st.currentSegment \o intersectX(prev, curr, boundary)
    IN  [segments       |-> IF Len(seg) >= 1 THEN Append(st.segments, seg) ELSE st.segments,
         currentSegment |-> <<>>]

\* prevInside && !currInside
Exiting(st, prev, curr, dd) ==
    LET boundary == IF curr.x > dd THEN dd ELSE -dd
        seg      == st.currentSegment \o intersectX(prev, curr, boundary)
    IN  [segments       |-> IF Len(seg) >= 2 THEN Append(st.segments, seg) ELSE st.segments,
         currentSegment |-> <<>>]

\* faulty variant: the new segment starts at the inside endpoint, without the crossing
EnteringNoCrossing(st, prev, curr, dd) == [st EXCEPT !.currentSegment = <<curr>>]

\* !prevInside && currInside
Entering(st, prev, curr, dd) ==
    LET boundary == IF prev.x > dd THEN dd ELSE -dd
    IN  [st EXCEPT !.currentSegment = intersectX(prev, curr, boundary) \o <<curr>>]

\* faulty variant: the two crossings are always pushed as [x = -d, x = +d]
BothOutsideUnordered(st, prev, curr, dd) ==
    IF (prev.x < -dd /\ curr.x > dd) \/ (prev.x > dd /\ curr.x < -dd)
    THEN LET int1 == intersectX(prev, curr, -dd)
             int2 == intersectX(prev, curr, dd)
         IN  IF int1 # <<>> /\ int2 # <<>>
             THEN [st EXCEPT !.segments = Append(st.segments, int1 \o int2)]
             ELSE st
    ELSE st

\* faulty variant: an edge with both endpoints outside never contributes
BothOutsideIgnored(st, prev, curr, dd) == st

\* !prevInside && !currInside
BothOutside(st, prev, curr, dd) ==
    IF (prev.x < -dd /\ curr.x > dd) \/ (prev.x > dd /\ curr.x < -dd)
    THEN LET int1 == intersectX(prev, curr, -dd)
             int2 == intersectX(prev, curr, dd)
         IN  IF int1 # <<>> /\ int2 # <<>>
             THEN IF prev.x < curr.x
                  THEN [st EXCEPT !.segments = Append(st.segments, int1 \o int2)]
                  ELSE [st EXCEPT !.segments = Append(st.segments, int2 \o int1)]
             ELSE st
    ELSE st

\* the body of the for loop, for index i (1-based)
ClipStep(pts, dd, i, st) ==
    IF i = 1 THEN FirstPoint(st, pts[1], dd)
    ELSE LET curr       == pts[i]
             prev       == pts[i - 1]
             currInside == isInside(curr, dd)
             prevInside == isInside(prev, dd)
         IN  IF prevInside /\ currInside THEN BothInside(st, curr)
             ELSE IF prevInside /\ ~currInside THEN Exiting(st, prev, curr, dd)
             ELSE IF ~prevInside /\ currInside THEN Entering(st, prev, curr, dd)
             ELSE BothOutside(st, prev, curr, dd)

RECURSIVE ClipLoop(_, _, _, _)
ClipLoop(pts, dd, i, st) ==
    IF i > Len(pts) THEN st ELSE ClipLoop(pts, dd, i + 1, ClipStep(pts, dd, i, st))

ClipInit == [segments |-> <<>>, currentSegment |-> <<>>]

\* the loop and the push of the remaining segment
ClipRun(pts, dd) ==
    LET st == ClipLoop(pts, dd, 1, ClipInit)
    IN  IF Len(st.currentSegment) >= 2
        THEN Append(st.segments, st.currentSegment)
        ELSE st.segments

\* faulty variant: the polyline is closed, the edge from the last point to the first is clipped too
clipToSideBandClosed(pts, dd) ==
    IF Len(pts) < 2 THEN <<>> ELSE ClipRun(Append(pts, pts[1]), dd)

clipToSideBand(pts, dd) ==
    IF Len(pts) < 2 THEN <<>> ELSE ClipRun(pts, dd)

(* ------------------------- landmark arithmetic ------------------------ *)
(* The numbers of the landmark model are the rationals, extended the way   *)
(* IEEE arithmetic extends the reals: [n, d] with d > 0 in lowest terms is *)
(* n/d, [1, 0] and [-1, 0] are +Infinity and -Infinity, [0, 0] is NaN.     *)
(* Zero has no sign.  Every operation is exact, except Math.sqrt of a      *)
(* number with an irrational root, which is rounded down to a multiple of  *)
(* 1/(10 d).                                                               *)

Sign(a) == IF a > 0 THEN 1 ELSE IF a < 0 THEN -1 ELSE 0

Q(n, dn) ==
    IF dn = 0 THEN [n |-> Sign(n), d |-> 0]
    ELSE LET g == Gcd(n, dn)
         IN  [n |-> Sign(dn) * (n \div g), d |-> Abs(dn) \div g]

NaN == [n |-> 0, d |-> 0]

IsNaN(a) == a.n = 0 /\ a.d = 0

IsFinite(a) == a.d # 0

Num(k) == [n |-> k, d |-> 1]

\* a ratio given in hundredths
Pct(k) == Q(k, 100)

NumNeg(a) == [n |-> -a.n, d |-> a.d]

NumAdd(a, b) ==
    IF IsNaN(a) \/ IsNaN(b) THEN NaN
    ELSE IF a.d = 0 /\ b.d = 0 THEN (IF a.n = b.n THEN a ELSE NaN)
    ELSE IF a.d = 0 THEN a
    ELSE IF b.d = 0 THEN b
    ELSE LET g == Gcd(a.d, b.d)
         IN  Q(a.n * (b.d \div g) + b.n * (a.d \div g), (a.d \div g) * b.d)

NumSub(a, b) == NumAdd(a, NumNeg(b))

NumMul(a, b) == Q(a.n * b.n, a.d * b.d)

NumDiv(a, b) == Q(a.n * b.d * Sign(b.n), a.d * Abs(b.n))

\* a > b; false when either is NaN
NumGt(a, b) ==
    /\ ~IsNaN(a) /\ ~IsNaN(b)
    /\ IF a.d = 0 /\ b.d = 0 THEN a.n > b.n
       ELSE IF a.d = 0 THEN a.n > 0
       ELSE IF b.d = 0 THEN b.n < 0
       ELSE LET g == Gcd(a.d, b.d)
            IN  a.n * (b.d \div g) > b.n * (a.d \div g)

\* a >= b; false when either is NaN
NumGe(a, b) == ~IsNaN(a) /\ ~IsNaN(b) /\ ~NumGt(b, a)

\* the largest k in lo..hi with k * k <= m (lo * lo <= m < (hi + 1) * (hi + 1))
RECURSIVE ISqrtIn(_, _, _)
ISqrtIn(m, lo, hi) ==
    IF lo >= hi THEN lo
    ELSE LET mid == (lo + hi + 1) \div 2
         IN  IF mid * mid <= m THEN ISqrtIn(m, mid, hi) ELSE ISqrtIn(m, lo, mid - 1)

ISqrt(m) == ISqrtIn(m, 0, IF m < 46340 THEN m ELSE 46340)

\* Math.sqrt
NumSqrt(a) ==
    IF a.n < 0 \/ IsNaN(a) THEN NaN
    ELSE IF a.d = 0 THEN a
    ELSE LET rn == ISqrt(a.n)
             rd == ISqrt(a.d)
         IN  IF rn * rn = a.n /\ rd * rd = a.d THEN Q(rn, rd)
             ELSE Q(ISqrt(a.n * a.d * 100), a.d * 10)

(* -------------------------- calculateLandmarks ------------------------ *)

\* faulty variant: the blend is linear in t, without the quadratic ease
getFaceCurveZLinear(yPos, radius, chinY, chinZ) ==
    IF NumGe(yPos, Num(0)) THEN radius
    ELSE LET t == NumDiv(NumSub(yPos, Num(0)), NumSub(chinY, Num(0)))
         IN  NumAdd(radius, NumMul(t, NumSub(chinZ, radius)))

getFaceCurveZ(yPos, radius, chinY, chinZ) ==
    IF NumGe(yPos, Num(0)) THEN radius
    ELSE LET t      == NumDiv(NumSub(yPos, Num(0)), NumSub(chinY, Num(0)))
             tEased == NumMul(t, t)
         IN  NumAdd(radius, NumMul(tEased, NumSub(chinZ, radius)))

\* the point of the sphere's front meridian at height yRatio * radius
getPointOnSphereFront(yRatio, radius) ==
    LET y        == NumMul(yRatio, radius)
        rSquared == NumSub(NumMul(radius, radius), NumMul(y, y))
        z        == IF NumGt(rSquared, Num(0)) THEN NumSqrt(rSquared) ELSE Num(0)
    IN  Vector3(Num(0), y, z)

Landmark(nm, pos, col) == [name |-> nm, position |-> pos, color |-> col]

\* the derived values and the array literal of calculateLandmarks
LandmarkArray(p) ==
    LET radius           == p.radius
        chinY            == NumSub(NumNeg(radius), NumMul(p.chinPos, radius))
        chinZ            == NumSub(radius, NumMul(p.chinLineCurve, radius))
        eyeLineY         == NumMul(p.eyeLinePos, radius)
        noseLineY        == NumMul(p.nosePos, radius)
        mouthLineY       == NumMul(p.mouthPos, radius)
        eyeWidthHalf     == NumMul(p.eyeWidth, radius)
        noseWidthHalf    == NumMul(p.noseWidth, radius)
        mouthWidthHalf   == NumMul(p.mouthWidth, radius)
        chinWidthHalf    == NumMul(p.chinWidth, radius)
        eyeCurveDepth    == NumMul(p.eyeCurve, radius)
        noseCurveDepth   == NumMul(p.noseCurve, radius)
        mouthCurveDepth  == NumMul(p.mouthCurve, radius)
        chinCurveHeight  == NumMul(p.chinCurve, radius)
        cutDistance      == NumMul(p.sideCut, radius)
        rimRadius        == NumSqrt(NumSub(NumMul(radius, radius),
                                           NumMul(cutDistance, cutDistance)))
        jawDropDistance  == NumMul(p.jawDrop, radius)
        jawWidthDistance == NumMul(p.jawWidth, radius)
        eyeZ             == getFaceCurveZ(eyeLineY, radius, chinY, chinZ)
        noseZ            == getFaceCurveZ(noseLineY, radius, chinY, chinZ)
        mouthZ           == getFaceCurveZ(mouthLineY, radius, chinY, chinZ)
    IN  << Landmark("Sphere Center", Vector3(Num(0), Num(0), Num(0)), "#ff00ff"),
           Landmark("Crown", Vector3(Num(0), radius, Num(0)), "#4ecdc4"),
           Landmark("Hairline", getPointOnSphereFront(p.hairlinePos, radius), "#ffd93d"),
           Landmark("Brow", getPointOnSphereFront(p.browPos, radius), "#ffd93d"),
           Landmark("Eye Center", Vector3(Num(0), eyeLineY, eyeZ), "#ff6b6b"),
           Landmark("Eye Left",
                    Vector3(NumNeg(eyeWidthHalf), eyeLineY, NumSub(eyeZ, eyeCurveDepth)),
                    "#ff6b6b"),
           Landmark("Eye Right",
                    Vector3(eyeWidthHalf, eyeLineY, NumSub(eyeZ, eyeCurveDepth)),
                    "#ff6b6b"),
           Landmark("Nose Center", Vector3(Num(0), noseLineY, noseZ), "#ff6b6b"),
           Landmark("Nose Left",
                    Vector3(NumNeg(noseWidthHalf), noseLineY, NumSub(noseZ, noseCurveDepth)),
                    "#ff6b6b"),
           Landmark("Nose Right",
                    Vector3(noseWidthHalf, noseLineY, NumSub(noseZ, noseCurveDepth)),
                    "#ff6b6b"),
           Landmark("Mouth Center", Vector3(Num(0), mouthLineY, mouthZ), "#ff6b6b"),
           Landmark("Mouth Left",
                    Vector3(NumNeg(mouthWidthHalf), mouthLineY, NumSub(mouthZ, mouthCurveDepth)),
                    "#ff6b6b"),
           Landmark("Mouth Right",
                    Vector3(mouthWidthHalf, mouthLineY, NumSub(mouthZ, mouthCurveDepth)),
                    "#ff6b6b"),
           Landmark("Chin", Vector3(Num(0), chinY, chinZ), "#45b7d1"),
           Landmark("Chin Left",
                    Vector3(NumNeg(chinWidthHalf), chinY, NumSub(chinZ, chinCurveHeight)),
                    "#45b7d1"),
           Landmark("Chin Right",
                    Vector3(chinWidthHalf, chinY, NumSub(chinZ, chinCurveHeight)),
                    "#45b7d1"),
           Landmark("Jaw Start Left",
                    Vector3(NumNeg(cutDistance), NumNeg(rimRadius), Num(0)), "#45b7d1"),
           Landmark("Jaw Start Right",
                    Vector3(cutDistance, NumNeg(rimRadius), Num(0)), "#45b7d1"),
           Landmark("Jaw Drop Left",
                    Vector3(NumNeg(jawWidthDistance),
                            NumSub(NumNeg(rimRadius), jawDropDistance), Num(0)),
                    "#45b7d1"),
           Landmark("Jaw Drop Right",
                    Vector3(jawWidthDistance,
                            NumSub(NumNeg(rimRadius), jawDropDistance), Num(0)),
                    "#45b7d1") >>

FinitePosition(lm) ==
    IsFinite(lm.position.x) /\ IsFinite(lm.position.y) /\ IsFinite(lm.position.z)

\* faulty variant: each Left landmark and the Right landmark after it trade places
calculateLandmarksSidesSwapped(p) ==
    LET a      == LandmarkArray(p)
        IsL(k) == k \in {6, 9, 12, 15, 17, 19}
        IsR(k) == k \in {7, 10, 13, 16, 18, 20}
    IN  [k \in 1..Len(a) |->
            IF IsL(k) THEN [a[k] EXCEPT !.position = a[k + 1].position]
            ELSE IF IsR(k) THEN [a[k] EXCEPT !.position = a[k - 1].position]
            ELSE a[k]]

\* faulty variant: landmarks whose position is not finite are left out
calculateLandmarksFiniteOnly(p) == SelectSeq(LandmarkArray(p), FinitePosition)

calculateLandmarks(p) == LandmarkArray(p)

(* ---------------------- transform and projection ---------------------- *)

\* new THREE.Quaternion(): the identity rotation
NewQuaternion == [x |-> Num(0), y |-> Num(0), z |-> Num(0), w |-> Num(1)]

Quaternion(qx, qy, qz, qw) == [x |-> qx, y |-> qy, z |-> qz, w |-> qw]

\* Vector3.applyQuaternion of three.js: v + q.w * t + cross(q.xyz, t) with
\* t = 2 * cross(q.xyz, v)
applyQuaternion(v, q) ==
    LET tx == NumMul(Num(2), NumSub(NumMul(q.y, v.z), NumMul(q.z, v.y)))
        ty == NumMul(Num(2), NumSub(NumMul(q.z, v.x), NumMul(q.x, v.z)))
        tz == NumMul(Num(2), NumSub(NumMul(q.x, v.y), NumMul(q.y, v.x)))
    IN  Vector3(NumSub(NumAdd(NumAdd(v.x, NumMul(q.w, tx)), NumMul(q.y, tz)), NumMul(q.z, ty)),
                NumSub(NumAdd(NumAdd(v.y, NumMul(q.w, ty)), NumMul(q.z, tx)), NumMul(q.x, tz)),
                NumSub(NumAdd(NumAdd(v.z, NumMul(q.w, tz)), NumMul(q.x, ty)), NumMul(q.y, tx)))

\* Vector3.add
VecAdd(a, b) == Vector3(NumAdd(a.x, b.x), NumAdd(a.y, b.y), NumAdd(a.z, b.z))

\* faulty variant: the pan is added in head space, before the rotation
transformLandmarksPanFirst(landmarks, rot, pn) ==
    [k \in 1..Len(landmarks) |->
        [landmarks[k] EXCEPT !.position =
            applyQuaternion(VecAdd(landmarks[k].position, Vector3(pn.x, pn.y, Num(0))), rot)]]

transformLandmarks(landmarks, rot, pn) ==
    [k \in 1..Len(landmarks) |->
        [landmarks[k] EXCEPT !.position =
            VecAdd(applyQuaternion(landmarks[k].position, rot), Vector3(pn.x, pn.y, Num(0)))]]

\* Math.round: the nearest integer, halves rounded up; NaN and the infinities unchanged
MathRound(a) ==
    IF a.d = 0 THEN a ELSE Num((2 * a.n + a.d) \div (2 * a.d))

\* faulty variant: canvas y is not flipped
ProjectedNoFlip(landmark, canvasWidth, canvasHeight) ==
    LET pos == landmark.position
        x   == NumAdd(NumDiv(Num(canvasWidth), Num(2)), pos.x)
        y   == NumAdd(NumDiv(Num(canvasHeight), Num(2)), pos.y)
    IN  [name |-> landmark.name, x |-> MathRound(x), y |-> MathRound(y),
         visible |-> NumGe(pos.z, Num(0))]

\* the landmark as projectLandmarks maps it
Projected(landmark, canvasWidth, canvasHeight) ==
    LET pos == landmark.position
        x   == NumAdd(NumDiv(Num(canvasWidth), Num(2)), pos.x)
        y   == NumSub(NumDiv(Num(canvasHeight), Num(2)), pos.y)
    IN  [name |-> landmark.name, x |-> MathRound(x), y |-> MathRound(y),
         visible |-> NumGe(pos.z, Num(0))]

\* faulty variant: landmarks facing away from the camera are left out
projectLandmarksVisibleOnly(landmarks, canvasWidth, canvasHeight) ==
    LET vis == SelectSeq(landmarks, LAMBDA lm : NumGe(lm.position.z, Num(0)))
    IN  [k \in 1..Len(vis) |-> Projected(vis[k], canvasWidth, canvasHeight)]

projectLandmarks(landmarks, canvasWidth, canvasHeight) ==
    [k \in 1..Len(landmarks) |-> Projected(landmarks[k], canvasWidth, canvasHeight)]

(* ------------------------- circles on a plane ------------------------- *)

\* Vector3.crossVectors
crossVectors(a, b) ==
    Vector3(NumSub(NumMul(a.y, b.z), NumMul(a.z, b.y)),
            NumSub(NumMul(a.z, b.x), NumMul(a.x, b.z)),
            NumSub(NumMul(a.x, b.y), NumMul(a.y, b.x)))

\* Vector3.dot
dot(a, b) == NumAdd(NumAdd(NumMul(a.x, b.x), NumMul(a.y, b.y)), NumMul(a.z, b.z))

\* Vector3.multiplyScalar
multiplyScalar(a, k) == Vector3(NumMul(a.x, k), NumMul(a.y, k), NumMul(a.z, k))

\* Vector3.normalize: divideScalar(length() || 1)
normalize(a) ==
    LET len == NumSqrt(dot(a, a))
    IN  IF len = Num(0) \/ IsNaN(len) THEN a
        ELSE multiplyScalar(a, NumDiv(Num(1), len))

NumAbs(a) == IF NumGe(a, Num(0)) THEN a ELSE NumNeg(a)

AxisX == Vector3(Num(1), Num(0), Num(0))
AxisY == Vector3(Num(0), Num(1), Num(0))
AxisZ == Vector3(Num(0), Num(0), Num(1))

\* faulty variant: the axis along which n is largest
helperAxisLargest(n) ==
    LET absX == NumAbs(n.x)
        absY == NumAbs(n.y)
        absZ == NumAbs(n.z)
    IN  IF NumGe(absX, absY) /\ NumGe(absX, absZ) THEN AxisX
        ELSE IF NumGe(absY, absZ) THEN AxisY
        ELSE AxisZ

\* the helper axis of basisFromNormal
helperAxis(n) ==
    LET absX == NumAbs(n.x)
        absY == NumAbs(n.y)
        absZ == NumAbs(n.z)
    IN  IF NumGe(absY, absX) /\ NumGe(absZ, absX) THEN AxisX
        ELSE IF NumGe(absZ, absY) THEN AxisY
        ELSE AxisZ

\* faulty variant: u is the helper axis crossed with n
basisFromNormalReversed(n) ==
    LET u == normalize(crossVectors(helperAxis(n), n))
        v == crossVectors(n, u)
    IN  <<u, v>>

basisFromNormal(n) ==
    LET u == normalize(crossVectors(n, helperAxis(n)))
        v == crossVectors(n, u)
    IN  <<u, v>>

\* Math.cos and Math.sin of (i / segments) * 2 pi, for the angles that are
\* whole quarter turns, where both are rational
MathCos(i, segments) ==
    CASE (4 * i) % (4 * segments) = 0            -> Num(1)
      [] (4 * i) % (4 * segments) = segments     -> Num(0)
      [] (4 * i) % (4 * segments) = 2 * segments -> Num(-1)
      [] (4 * i) % (4 * segments) = 3 * segments -> Num(0)

MathSin(i, segments) ==
    CASE (4 * i) % (4 * segments) = 0            -> Num(0)
      [] (4 * i) % (4 * segments) = segments     -> Num(1)
      [] (4 * i) % (4 * segments) = 2 * segments -> Num(0)
      [] (4 * i) % (4 * segments) = 3 * segments -> Num(-1)

circleOnPlane(center, normal, radius, segments) ==
    LET basis == basisFromNormal(normalize(normal))
        u     == basis[1]
        v     == basis[2]
    IN  [k \in 1..(segments + 1) |->
            VecAdd(VecAdd(multiplyScalar(u, NumMul(MathCos(k - 1, segments), radius)),
                          multiplyScalar(v, NumMul(MathSin(k - 1, segments), radius))),
                   center)]

(* ------------------------------ the page ------------------------------ *)

\* the state of the page, of TrackballControls and of LandmarkOverlay as the
\* components are created
InitialUi ==
    [controlMode        |-> "canvas",
     backgroundImage    |-> "null",
     imagePos           |-> [x |-> Num(0), y |-> Num(0)],
     imageScale         |-> Num(1),
     canvasZoom         |-> Q(1, 2),
     isDragging         |-> FALSE,
     isPanning          |-> FALSE,
     isImageDragging    |-> FALSE,
     lastX              |-> 0,
     lastY              |-> 0,
     showLandmarks      |-> FALSE,
     projectedLandmarks |-> <<>>,
     hoveredLandmark    |-> [name |-> "null"]]

(* ------------------------------ splitLine ------------------------------ *)

\* Vector3.lerpVectors
lerpVectors(v1, v2, alpha) ==
    Vector3(NumAdd(v1.x, NumMul(NumSub(v2.x, v1.x), alpha)),
            NumAdd(v1.y, NumMul(NumSub(v2.y, v1.y), alpha)),
            NumAdd(v1.z, NumMul(NumSub(v2.z, v1.z), alpha)))

\* faulty variant: a crossing line is cut without the point at z = 0
splitLineNoIntersection(p1, p2) ==
    LET z1 == p1.z
        z2 == p2.z
    IN  IF NumGe(z1, Num(0)) /\ NumGe(z2, Num(0))
        THEN [front |-> << <<p1, p2>> >>, back |-> <<>>]
        ELSE IF NumGt(Num(0), z1) /\ NumGt(Num(0), z2)
        THEN [front |-> <<>>, back |-> << <<p1, p2>> >>]
        ELSE IF NumGe(z1, Num(0))
             THEN [front |-> << <<p1, p1>> >>, back |-> << <<p2, p2>> >>]
             ELSE [front |-> << <<p2, p2>> >>, back |-> << <<p1, p1>> >>]

splitLine(p1, p2) ==
    LET z1  == p1.z
        z2  == p2.z
        t   == NumDiv(z1, NumSub(z1, z2))
        mid == lerpVectors(p1, p2, t)
    IN  IF NumGe(z1, Num(0)) /\ NumGe(z2, Num(0))
        THEN [front |-> << <<p1, p2>> >>, back |-> <<>>]
        ELSE IF NumGt(Num(0), z1) /\ NumGt(Num(0), z2)
        THEN [front |-> <<>>, back |-> << <<p1, p2>> >>]
        ELSE IF NumGe(z1, Num(0))
             THEN [front |-> << <<p1, mid>> >>, back |-> << <<mid, p2>> >>]
             ELSE [front |-> << <<mid, p2>> >>, back |-> << <<p1, mid>> >>]

(* -------------------------- the rotation store -------------------------- *)

\* angles are counted in steps of 2 * acos(3/5), about 106.26 degrees: the
\* half angle of k steps has the rational cosine and sine Re and Im of
\* ((3 + 4i) / 5)^k
RECURSIVE MathCosHalf(_), MathSinHalf(_)
MathCosHalf(k) ==
    IF k = 0 THEN Num(1)
    ELSE IF k < 0 THEN MathCosHalf(-k)
    ELSE NumSub(NumMul(MathCosHalf(k - 1), Q(3, 5)), NumMul(MathSinHalf(k - 1), Q(4, 5)))

MathSinHalf(k) ==
    IF k = 0 THEN Num(0)
    ELSE IF k < 0 THEN NumNeg(MathSinHalf(-k))
    ELSE NumAdd(NumMul(MathSinHalf(k - 1), Q(3, 5)), NumMul(MathCosHalf(k - 1), Q(4, 5)))

\* Quaternion.setFromAxisAngle, the angle in steps
setFromAxisAngle(axis, angle) ==
    LET sn == MathSinHalf(angle)
    IN  Quaternion(NumMul(axis.x, sn), NumMul(axis.y, sn), NumMul(axis.z, sn),
                   MathCosHalf(angle))

\* Quaternion.multiplyQuaternions
multiplyQuaternions(a, b) ==
    Quaternion(
        NumSub(NumAdd(NumAdd(NumMul(a.x, b.w), NumMul(a.w, b.x)), NumMul(a.y, b.z)), NumMul(a.z, b.y)),
        NumSub(NumAdd(NumAdd(NumMul(a.y, b.w), NumMul(a.w, b.y)), NumMul(a.z, b.x)), NumMul(a.x, b.z)),
        NumSub(NumAdd(NumAdd(NumMul(a.z, b.w), NumMul(a.w, b.z)), NumMul(a.x, b.y)), NumMul(a.y, b.x)),
        NumSub(NumSub(NumSub(NumMul(a.w, b.w), NumMul(a.x, b.x)), NumMul(a.y, b.y)), NumMul(a.z, b.z)))

\* faulty variant: the delta is multiplied on the right
applyRotationPostMultiplied(q, axis, angle) ==
    multiplyQuaternions(q, setFromAxisAngle(axis, angle))

\* the orientation applyRotation stores: q.clone().premultiply(deltaQ)
applyRotation(q, axis, angle) ==
    multiplyQuaternions(setFromAxisAngle(axis, angle), q)

\* the orientation applyLocalRotation stores: q.clone().multiply(deltaQ)
applyLocalRotation(q, axis, angle) ==
    multiplyQuaternions(q, setFromAxisAngle(axis, angle))

(* ----------------------- the engine on objects ----------------------- *)

\* The engine functions once more, on Vector3 objects: heap is the sequence
\* of the objects created so far, a reference is an index into it, and a
\* method that changes its receiver overwrites the receiver's cell. A cell
\* also tells whether its coordinates are on the integer grid of the polyline
\* utilities or are rationals. Each function returns the heap it leaves and
\* its result, with references where the code returns objects.

Cell(grid, v) == [grid |-> grid, v |-> v]

\* new THREE.Vector3(...) and the methods that return a new object
NewVector3(h, grid, v) == [heap |-> Append(h, Cell(grid, v)), ref |-> Len(h) + 1]

\* faulty variant: the receiver itself is handed on instead of a copy
cloneShared(h, a) == [heap |-> h, ref |-> a]

\* Vector3.clone
clone(h, a) == [heap |-> Append(h, h[a]), ref |-> Len(h) + 1]

\* a method that assigns to its receiver's coordinates
SetCoordinates(h, a, v) == [h EXCEPT ![a] = [@ EXCEPT !.v = v]]

\* the element of a set of one element: a step's outcome, worked out once
TheOne(S) == CHOOSE x \in S : TRUE

\* one new object per value, in order
NewVector3s(h, grid, vs) ==
    [heap |-> h \o [k \in 1..Len(vs) |-> Cell(grid, vs[k])],
     refs |-> [k \in 1..Len(vs) |-> Len(h) + k]]

Values(h, refs) == [k \in 1..Len(refs) |-> h[refs[k]].v]

\* position.clone().applyQuaternion(rotation).add(new THREE.Vector3(pan.x, pan.y, 0))
RECURSIVE TransformLoop(_, _, _, _, _)
TransformLoop(h, landmarks, rot, pn, acc) ==
    IF Len(acc) = Len(landmarks) THEN [heap |-> h, result |-> acc]
    ELSE LET landmark == landmarks[Len(acc) + 1]
             c  == clone(h, landmark.position)
             h1 == SetCoordinates(c.heap, c.ref, applyQuaternion(c.heap[c.ref].v, rot))
             pv == NewVector3(h1, FALSE, Vector3(pn.x, pn.y, Num(0)))
             h2 == SetCoordinates(pv.heap, c.ref, VecAdd(pv.heap[c.ref].v, pv.heap[pv.ref].v))
         IN  TransformLoop(h2, landmarks, rot, pn,
                           Append(acc, [landmark EXCEPT !.position = c.ref]))

transformLandmarksOnHeap(h, landmarks, rot, pn) ==
    TransformLoop(h, landmarks, rot, pn, <<>>)

\* points.map(p => p.clone().applyQuaternion(quaternion))
RECURSIVE RotateLoop(_, _, _, _)
RotateLoop(h, pts, quaternion, acc) ==
    IF Len(acc) = Len(pts) THEN [heap |-> h, result |-> acc]
    ELSE LET c  == clone(h, pts[Len(acc) + 1])
             h1 == SetCoordinates(c.heap, c.ref, applyQuaternion(c.heap[c.ref].v, quaternion))
         IN  RotateLoop(h1, pts, quaternion, Append(acc, c.ref))

rotatePointsOnHeap(h, pts, quaternion) == RotateLoop(h, pts, quaternion, <<>>)

\* the value of rotatePoints
rotatePoints(pts, quaternion) == [k \in 1..Len(pts) |-> applyQuaternion(pts[k], quaternion)]

\* normal.clone().normalize(), the basis vectors and the points are new
\* objects; center is read by add(center)
circleOnPlaneOnHeap(h, center, normal, radius, segments) ==
    TheOne({ TheOne({ TheOne({ TheOne({ TheOne({ TheOne({
        [heap |-> pts.heap, result |-> pts.refs] :
            pts \in {NewVector3s(v.heap, FALSE,
                        [k \in 1..(segments + 1) |->
                            VecAdd(VecAdd(multiplyScalar(v.heap[u.ref].v,
                                              NumMul(MathCos(k - 1, segments), radius)),
                                          multiplyScalar(v.heap[v.ref].v,
                                              NumMul(MathSin(k - 1, segments), radius))),
                                   v.heap[center].v)])} }) :
            v     \in {NewVector3(u.heap, FALSE, basis[2])} }) :
            u     \in {NewVector3(h1, FALSE, basis[1])} }) :
            basis \in {basisFromNormal(h1[c.ref].v)} }) :
            h1    \in {SetCoordinates(c.heap, c.ref, normalize(c.heap[c.ref].v))} }) :
            c     \in {clone(h, normal)} })

\* the point objects themselves are pushed into the runs
splitFrontBackOnHeap(h, pts) ==
    LET objects == [k \in 1..Len(pts) |->
                       [x |-> h[pts[k]].v.x, y |-> h[pts[k]].v.y, z |-> h[pts[k]].v.z,
                        ref |-> pts[k]]]
        split   == splitFrontBack(objects)
        Refs(segs) == [i \in 1..Len(segs) |-> [k \in 1..Len(segs[i]) |-> segs[i][k].ref]]
    IN  [heap |-> h, result |-> [front |-> Refs(split.front), back |-> Refs(split.back)]]

\* every point of a segment is a clone or a new interpolated point
RECURSIVE ClipSegmentsOnHeap(_, _)
ClipSegmentsOnHeap(h, segs) ==
    IF segs = <<>> THEN [heap |-> h, result |-> <<>>]
    ELSE LET n    == NewVector3s(h, TRUE, Head(segs))
             rest == ClipSegmentsOnHeap(n.heap, Tail(segs))
         IN  [heap |-> rest.heap, result |-> <<n.refs>> \o rest.result]

clipToSideBandOnHeap(h, pts, dd) ==
    ClipSegmentsOnHeap(h, clipToSideBand(Values(h, pts), dd))

\* every position is a new THREE.Vector3
calculateLandmarksOnHeap(h, p) ==
    TheOne({ TheOne({
        [heap |-> n.heap,
         result |-> [k \in 1..Len(landmarks) |-> [landmarks[k] EXCEPT !.position = n.refs[k]]]] :
            n \in {NewVector3s(h, FALSE,
                               [k \in 1..Len(landmarks) |-> landmarks[k].position])} }) :
            landmarks \in {calculateLandmarks(p)} })

\* landmarks with the positions their references point to
LandmarkValues(h, landmarks) ==
    [k \in 1..Len(landmarks) |-> [landmarks[k] EXCEPT !.position = h[@].v]]

\* reads the positions and returns plain records
projectLandmarksOnHeap(h, landmarks, canvasWidth, canvasHeight) ==
    [heap |-> h,
     result |-> projectLandmarks(LandmarkValues(h, landmarks), canvasWidth, canvasHeight)]

(* ----------------------- the page's handlers ----------------------- *)

\* the page passes handleImageDrag to TrackballControls
onImageDrag == TRUE

NumMax(a, b) == IF NumGe(a, b) THEN a ELSE b

NumMin(a, b) == IF NumGe(a, b) THEN b ELSE a

\* faulty variant: the right button pans and the left button rotates
handlePointerDownSwapped(u, e) ==
    [u EXCEPT !.isDragging      = TRUE,
              !.isImageDragging = IF u.controlMode = "image" THEN onImageDrag ELSE FALSE,
              !.isPanning       = IF u.controlMode = "image" THEN FALSE
                                  ELSE e.button = 2 \/ e.shiftKey,
              !.lastX           = e.clientX,
              !.lastY           = e.clientY]

handlePointerDown(u, e) ==
    [u EXCEPT !.isDragging      = TRUE,
              !.isImageDragging = IF u.controlMode = "image" THEN onImageDrag ELSE FALSE,
              !.isPanning       = IF u.controlMode = "image" THEN FALSE
                                  ELSE e.button # 2 /\ ~e.shiftKey,
              !.lastX           = e.clientX,
              !.lastY           = e.clientY]

\* faulty variant: the pan is replaced, not moved
applyPanReplacing(p, dx, dy) == [x |-> dx, y |-> dy]

\* headPan.update(p => ({ x: p.x + dx, y: p.y + dy }))
applyPan(p, dx, dy) == [x |-> NumAdd(p.x, dx), y |-> NumAdd(p.y, dy)]

handleImageDrag(u, dx, dy) ==
    IF u.backgroundImage # "null"
    THEN [u EXCEPT !.imagePos = [x |-> NumAdd(@.x, dx), y |-> NumAdd(@.y, dy)]]
    ELSE u

\* the drag of the pointer to e, st = [ui, pan, rotation]; deltaX * panSpeed
\* is deltaX, and pointer coordinates are counted in the length for which
\* deltaX * rotationSpeed is deltaX angle steps
PointerMoved(st, e) ==
    LET deltaX == e.clientX - st.ui.lastX
        deltaY == e.clientY - st.ui.lastY
        u1     == [st.ui EXCEPT !.lastX = e.clientX, !.lastY = e.clientY]
    IN  IF st.ui.isImageDragging /\ onImageDrag
        THEN [st EXCEPT !.ui = handleImageDrag(u1, Num(deltaX), Num(deltaY))]
        ELSE IF st.ui.isPanning
        THEN [st EXCEPT !.ui = u1, !.pan = applyPan(@, Num(deltaX), Num(-deltaY))]
        ELSE LET r1 == IF Abs(deltaX) > 0 THEN applyRotation(st.rotation, AxisY, deltaX)
                       ELSE st.rotation
                 r2 == IF Abs(deltaY) > 0 THEN applyRotation(r1, AxisX, deltaY) ELSE r1
             IN  [st EXCEPT !.ui = u1, !.rotation = r2]

\* faulty variant: a move is taken for a drag whether or not a button is down
handlePointerMoveUnguarded(st, e) == PointerMoved(st, e)

handlePointerMove(st, e) ==
    IF ~st.ui.isDragging THEN st ELSE PointerMoved(st, e)

\* the handler of pointerup and of pointercancel
handlePointerUp(u) ==
    [u EXCEPT !.isDragging = FALSE, !.isPanning = FALSE, !.isImageDragging = FALSE]

\* img.onload of handleImageUpload, for an image of the given natural size
handleImageUpload(u, cv, img) ==
    [u EXCEPT !.imageScale      = NumMin(Q(cv.width, img.naturalWidth),
                                         Q(cv.height, img.naturalHeight)),
              !.imagePos        = [x |-> Num(0), y |-> Num(0)],
              !.backgroundImage = "blob"]

\* faulty variant: clearing the image also leaves the image control mode
clearImageLeavingMode(u) ==
    [u EXCEPT !.backgroundImage = "null",
              !.imagePos        = [x |-> Num(0), y |-> Num(0)],
              !.imageScale      = Num(1),
              !.controlMode     = IF @ = "image" THEN "canvas" ELSE @]

clearImage(u) ==
    [u EXCEPT !.backgroundImage = "null",
              !.imagePos        = [x |-> Num(0), y |-> Num(0)],
              !.imageScale      = Num(1)]

\* faulty variant: the new radius is not clamped
handleWheelUnclamped(st, deltaY) ==
    LET delta == IF deltaY > 0 THEN Q(95, 100) ELSE Q(105, 100)
    IN  IF st.ui.controlMode = "head"
        THEN [st EXCEPT !.radius = NumMul(st.radius, delta)]
        ELSE IF st.ui.controlMode = "image" /\ st.ui.backgroundImage # "null"
        THEN [st EXCEPT !.ui.imageScale =
                 NumMax(Q(1, 10), NumMin(Num(10), NumMul(st.ui.imageScale, delta)))]
        ELSE [st EXCEPT !.ui.canvasZoom =
                 NumMax(Q(1, 10), NumMin(Num(2), NumMul(st.ui.canvasZoom, delta)))]

\* st = [ui, radius]
handleWheel(st, deltaY) ==
    LET delta == IF deltaY > 0 THEN Q(95, 100) ELSE Q(105, 100)
    IN  IF st.ui.controlMode = "head"
        THEN [st EXCEPT !.radius = NumMax(Num(20), NumMin(Num(2000), NumMul(st.radius, delta)))]
        ELSE IF st.ui.controlMode = "image" /\ st.ui.backgroundImage # "null"
        THEN [st EXCEPT !.ui.imageScale =
                 NumMax(Q(1, 10), NumMin(Num(10), NumMul(st.ui.imageScale, delta)))]
        ELSE [st EXCEPT !.ui.canvasZoom =
                 NumMax(Q(1, 10), NumMin(Num(2), NumMul(st.ui.canvasZoom, delta)))]

(* ------------------- the landmark effect and overlay ------------------- *)

\* no landmark is hovered
NoLandmark == [name |-> "null"]

\* the page passes a callback that stores the list in projectedLandmarks
onLandmarksUpdate == TRUE

\* the list the Scene effect hands to onLandmarksUpdate
SceneLandmarks(p, rot, pn, cv) ==
    projectLandmarks(transformLandmarks(calculateLandmarks(p), rot, pn), cv.width, cv.height)

\* the overlay is part of the page
OverlayMounted(u) == u.showLandmarks /\ Len(u.projectedLandmarks) > 0

\* the dot of a landmark is drawn, with its hit area
DotDrawn(landmark, cv) ==
    /\ NumGe(landmark.x, Num(0)) /\ NumGe(Num(cv.width), landmark.x)
    /\ NumGe(landmark.y, Num(0)) /\ NumGe(Num(cv.height), landmark.y)
    /\ landmark.visible

handleMouseEnter(u, landmark) == [u EXCEPT !.hoveredLandmark = landmark]

handleMouseLeave(u) == [u EXCEPT !.hoveredLandmark = NoLandmark]

(* --------------------------- specifications --------------------------- *)

NoParams == [radius |-> 0]

\* the stores and the canvas play no part in a call of a polyline utility or
\* of calculateLandmarks alone
NoScene ==
    /\ rotation = NewQuaternion
    /\ pan = [x |-> Num(0), y |-> Num(0)]
    /\ canvas = [width |-> 0, height |-> 0]
    /\ landmarks3D = <<>>
    /\ transformed = <<>>
    /\ ui = InitialUi
    /\ heap = <<>>

\* input points of splitFrontBack: x tells apart points of equal z
SplitPoints == {Vector3(t, 0, zz) : t \in 0..1, zz \in -MaxZ..MaxZ}

InitSplit ==
    /\ \E n \in 0..MaxLen : points \in [1..n -> SplitPoints]
    /\ d = 0
    /\ params = NoParams
    /\ out = <<>>
    /\ NoScene
    /\ pc = "call"

CallSplitFrontBack ==
    /\ pc = "call"
    /\ out' = splitFrontBack(points)
    /\ pc' = "done"
    /\ UNCHANGED <<points, d, params, rotation, pan, canvas, landmarks3D, transformed, ui, heap>>

NextSplit == CallSplitFrontBack

SpecSplit == InitSplit /\ [][NextSplit]_vars

\* input polylines of clipToSideBand: any x per point; flat polylines lie on
\* the x axis, ramps climb one YZUnit in y per point and zigzag in z
ClipPoint(px, i, ramp) ==
    IF ramp THEN Vector3(px, i * YZUnit, IF i % 2 = 1 THEN YZUnit ELSE -YZUnit)
    ELSE Vector3(px, 0, 0)

InitClip ==
    /\ \E n \in 0..MaxLen : \E xs \in [1..n -> -MaxX..MaxX] : \E ramp \in BOOLEAN :
           points = [i \in 1..n |-> ClipPoint(xs[i], i, ramp)]
    /\ d \in 0..MaxX
    /\ params = NoParams
    /\ out = <<>>
    /\ NoScene
    /\ pc = "call"

CallClipToSideBand ==
    /\ pc = "call"
    /\ out' = clipToSideBand(points, d)
    /\ pc' = "done"
    /\ UNCHANGED <<points, d, params, rotation, pan, canvas, landmarks3D, transformed, ui, heap>>

NextClip == CallClipToSideBand

SpecClip == InitClip /\ [][NextClip]_vars

\* the shape parameters of the page, in hundredths (radius in pixels)
DefaultParams ==
    [radius |-> Num(100), sideCut |-> Pct(68),
     hairlinePos |-> Pct(50), browPos |-> Pct(0), eyeLinePos |-> Pct(-20),
     nosePos |-> Pct(-70), mouthPos |-> Pct(-92),
     eyeWidth |-> Pct(63), noseWidth |-> Pct(13), mouthWidth |-> Pct(24),
     eyeCurve |-> Pct(14), noseCurve |-> Pct(0), mouthCurve |-> Pct(10),
     chinPos |-> Pct(35), chinWidth |-> Pct(30), chinCurve |-> Pct(17),
     chinLineCurve |-> Pct(25), jawDrop |-> Pct(30), jawWidth |-> Pct(68)]

\* input parameter records: the defaults with some of the ratios varied, a
\* side cut beyond the sphere (sideCut > 1) and positions at and beyond the
\* poles included
HeadParamsSet ==
    {[DefaultParams EXCEPT !.radius = Num(r), !.sideCut = Pct(sc),
                           !.hairlinePos = Pct(hp), !.eyeLinePos = Pct(ep),
                           !.mouthPos = Pct(mp), !.chinPos = Pct(cp),
                           !.chinLineCurve = Pct(clc), !.noseCurve = Pct(nc)] :
        r \in {20, 100}, sc \in {60, 68, 120}, hp \in {50, 100, 120},
        ep \in {-20, 20}, mp \in {-92, -100}, cp \in {0, 35},
        clc \in {-50, 0, 25}, nc \in {0, 10}}

InitLandmarks ==
    /\ points = <<>>
    /\ d = 0
    /\ params \in HeadParamsSet
    /\ out = <<>>
    /\ NoScene
    /\ pc = "call"

CallCalculateLandmarks ==
    /\ pc = "call"
    /\ out' = calculateLandmarks(params)
    /\ pc' = "done"
    /\ UNCHANGED <<points, d, params, rotation, pan, canvas, landmarks3D, transformed, ui, heap>>

NextLandmarks == CallCalculateLandmarks

SpecLandmarks == InitLandmarks /\ [][NextLandmarks]_vars

\* the Scene effect: the landmark pipeline run on the current parameters,
\* the rotation and pan stores and the canvas size

\* shape parameters of the scene: the defaults with some ratios varied
SceneParams ==
    {[DefaultParams EXCEPT !.radius = Num(r), !.sideCut = Pct(sc),
                           !.mouthPos = Pct(mp), !.chinLineCurve = Pct(clc)] :
        r \in {20, 100}, sc \in {68, 120}, mp \in {-92, -100}, clc \in {0, 25}}

\* unit quaternions with rational components: the identity, half turns about
\* x and y, a third of a turn about (1,1,1), and turns about y and about z by
\* the angle whose half has cosine 3/5
Rotations ==
    {NewQuaternion,
     Quaternion(Num(1), Num(0), Num(0), Num(0)),
     Quaternion(Num(0), Num(1), Num(0), Num(0)),
     Quaternion(Q(1, 2), Q(1, 2), Q(1, 2), Q(1, 2)),
     Quaternion(Num(0), Q(4, 5), Num(0), Q(3, 5)),
     Quaternion(Num(0), Num(0), Q(4, 5), Q(3, 5))}

Pans ==
    {[x |-> Num(0), y |-> Num(0)], [x |-> Num(10), y |-> Num(-5)],
     [x |-> Num(-450), y |-> Num(250)], [x |-> Q(1, 2), y |-> Q(-1, 2)]}

Canvases == {[width |-> 1920, height |-> 1080], [width |-> 801, height |-> 601]}

InitScene ==
    /\ points = <<>>
    /\ d = 0
    /\ params \in SceneParams
    /\ rotation \in Rotations
    /\ pan \in Pans
    /\ canvas \in Canvases
    /\ landmarks3D = <<>>
    /\ transformed = <<>>
    /\ out = <<>>
    /\ ui = InitialUi
    /\ heap = <<>>
    /\ pc = "call"

SceneEffect ==
    /\ pc = "call"
    /\ landmarks3D' = calculateLandmarks(params)
    /\ transformed' = transformLandmarks(landmarks3D', rotation, pan)
    /\ out' = projectLandmarks(transformed', canvas.width, canvas.height)
    /\ pc' = "done"
    /\ UNCHANGED <<points, d, params, rotation, pan, canvas, ui, heap>>

NextScene == SceneEffect

SpecScene == InitScene /\ [][NextScene]_vars

\* circleOnPlane and basisFromNormal on circles of the head: params holds
\* the arguments

AxisNormals ==
    {AxisX, AxisY, AxisZ,
     multiplyScalar(AxisX, Num(-1)), multiplyScalar(AxisY, Num(-1)),
     multiplyScalar(AxisZ, Num(-1))}

\* the axis-aligned unit normals, normals of other lengths, and tilted
\* normals whose basis is rational
Normals ==
    AxisNormals \cup
    {Vector3(Num(0), Num(0), Num(2)), Vector3(Num(-3), Num(0), Num(0)),
     Vector3(Num(3), Num(4), Num(0)),
     Vector3(Q(3, 5), Q(4, 5), Num(0)), Vector3(Num(0), Q(3, 5), Q(-4, 5)),
     Vector3(Q(4, 5), Num(0), Q(3, 5))}

Centers ==
    {Vector3(Num(0), Num(0), Num(0)), Vector3(Num(-68), Num(0), Num(0)),
     Vector3(Num(1), Num(2), Num(3))}

CircleArgs ==
    [center : Centers, normal : Normals, radius : {Num(0), Num(1), Num(100)},
     segments : {1, 2, 4}]

InitCircle ==
    /\ points = <<>>
    /\ d = 0
    /\ params \in CircleArgs
    /\ out = <<>>
    /\ NoScene
    /\ pc = "call"

CallBasisFromNormal ==
    /\ pc = "call"
    /\ out' = basisFromNormal(params.normal)
    /\ pc' = "basis"
    /\ UNCHANGED <<points, d, params, rotation, pan, canvas, landmarks3D, transformed, ui, heap>>

CallCircleOnPlane ==
    /\ pc = "call"
    /\ out' = circleOnPlane(params.center, params.normal, params.radius, params.segments)
    /\ pc' = "circle"
    /\ UNCHANGED <<points, d, params, rotation, pan, canvas, landmarks3D, transformed, ui, heap>>

NextCircle == CallBasisFromNormal \/ CallCircleOnPlane

SpecCircle == InitCircle /\ [][NextCircle]_vars

\* splitLine on the two ends of a rotated line

LineEnds ==
    {Vector3(Num(px), Num(py), pz) :
        px \in {0, 3}, py \in {-1, 2}, pz \in {Num(-2), Num(-1), Num(0), Q(1, 2), Num(3)}}

InitSplitLine ==
    /\ points \in [1..2 -> LineEnds]
    /\ d = 0
    /\ params = NoParams
    /\ out = <<>>
    /\ NoScene
    /\ pc = "call"

CallSplitLine ==
    /\ pc = "call"
    /\ out' = splitLine(points[1], points[2])
    /\ pc' = "done"
    /\ UNCHANGED <<points, d, params, rotation, pan, canvas, landmarks3D, transformed, ui, heap>>

NextSplitLine == CallSplitLine

SpecSplitLine == InitSplitLine /\ [][NextSplitLine]_vars

\* calls of the rotation store: out records the last call and the
\* orientation it found, d counts the calls

Axes == {AxisX, AxisY, AxisZ}

AngleSteps == {-1, 1}

InitRotation ==
    /\ points = <<>>
    /\ d = 0
    /\ params = NoParams
    /\ out = <<>>
    /\ NoScene
    /\ pc = "idle"

CallApplyRotation ==
    /\ d < MaxCalls
    /\ \E axis \in Axes, angle \in AngleSteps :
          /\ rotation' = applyRotation(rotation, axis, angle)
          /\ out' = [axis |-> axis, angle |-> angle, before |-> rotation]
    /\ d' = d + 1
    /\ pc' = "applyRotation"
    /\ UNCHANGED <<points, params, pan, canvas, landmarks3D, transformed, ui, heap>>

CallApplyLocalRotation ==
    /\ d < MaxCalls
    /\ \E axis \in Axes, angle \in AngleSteps :
          /\ rotation' = applyLocalRotation(rotation, axis, angle)
          /\ out' = [axis |-> axis, angle |-> angle, before |-> rotation]
    /\ d' = d + 1
    /\ pc' = "applyLocalRotation"
    /\ UNCHANGED <<points, params, pan, canvas, landmarks3D, transformed, ui, heap>>

CallResetRotation ==
    /\ d < MaxCalls
    /\ rotation' = NewQuaternion
    /\ out' = [before |-> rotation]
    /\ d' = d + 1
    /\ pc' = "resetRotation"
    /\ UNCHANGED <<points, params, pan, canvas, landmarks3D, transformed, ui, heap>>

NextRotation == CallApplyRotation \/ CallApplyLocalRotation \/ CallResetRotation

SpecRotation == InitRotation /\ [][NextRotation]_vars

\* sequences of engine calls on shared objects: params holds what the
\* caller passes in, out the last call with the heap it found and its result,
\* d counts the calls

\* the objects the caller starts with: a polyline of three grid points, a
\* normal, a center and a further point
InitialHeap ==
    << Cell(TRUE, ClipPoint(-3, 1, TRUE)), Cell(TRUE, ClipPoint(0, 2, TRUE)),
       Cell(TRUE, ClipPoint(3, 3, TRUE)),
       Cell(FALSE, Vector3(Num(0), Num(0), Num(2))),
       Cell(FALSE, Vector3(Num(1), Num(2), Num(3))),
       Cell(FALSE, Vector3(Num(-68), Num(0), Num(-5))) >>

InitialHeld ==
    [head      |-> DefaultParams,
     polyline  |-> <<1, 2, 3>>,
     normal    |-> 4,
     center    |-> 5,
     vectors   |-> <<5, 6>>,
     landmarks |-> << Landmark("Center", 5, "structure"), Landmark("Side", 6, "cranium") >>]

\* half turns about x and about z
HalfTurns ==
    {Quaternion(Num(1), Num(0), Num(0), Num(0)), Quaternion(Num(0), Num(0), Num(1), Num(0))}

InitEngine ==
    /\ points = <<>>
    /\ d = 0
    /\ params = InitialHeld
    /\ out = <<>>
    /\ rotation = NewQuaternion
    /\ pan = [x |-> Num(0), y |-> Num(0)]
    /\ canvas = [width |-> 0, height |-> 0]
    /\ landmarks3D = <<>>
    /\ transformed = <<>>
    /\ ui = InitialUi
    /\ heap = InitialHeap
    /\ pc = "idle"

EngineCalculateLandmarks ==
    /\ d < MaxCalls
    /\ LET args == [p |-> params.head]
           c    == calculateLandmarksOnHeap(heap, args.p)
       IN  /\ heap' = c.heap
           /\ params' = [params EXCEPT !.landmarks = c.result]
           /\ out' = [fn |-> "calculateLandmarks", args |-> args, before |-> heap, result |-> c.result]
    /\ d' = d + 1
    /\ pc' = "calculateLandmarks"
    /\ UNCHANGED <<points, rotation, pan, canvas, landmarks3D, transformed, ui>>

EngineTransformLandmarks ==
    /\ d < MaxCalls
    /\ \E rot \in HalfTurns :
          LET args == [landmarks |-> params.landmarks, rotation |-> rot,
                        pan |-> [x |-> Num(10), y |-> Num(-5)]]
              c    == transformLandmarksOnHeap(heap, args.landmarks, args.rotation, args.pan)
          IN  /\ heap' = c.heap
              /\ params' = [params EXCEPT !.landmarks = c.result]
              /\ out' = [fn |-> "transformLandmarks", args |-> args, before |-> heap, result |-> c.result]
    /\ d' = d + 1
    /\ pc' = "transformLandmarks"
    /\ UNCHANGED <<points, rotation, pan, canvas, landmarks3D, transformed, ui>>

EngineProjectLandmarks ==
    /\ d < MaxCalls
    /\ LET args == [landmarks |-> params.landmarks, canvasWidth |-> 1920, canvasHeight |-> 1080]
           c    == projectLandmarksOnHeap(heap, args.landmarks, args.canvasWidth, args.canvasHeight)
       IN  /\ heap' = c.heap
           /\ params' = params
           /\ out' = [fn |-> "projectLandmarks", args |-> args, before |-> heap, result |-> c.result]
    /\ d' = d + 1
    /\ pc' = "projectLandmarks"
    /\ UNCHANGED <<points, rotation, pan, canvas, landmarks3D, transformed, ui>>

EngineRotatePoints ==
    /\ d < MaxCalls
    /\ \E q \in HalfTurns :
          LET args == [points |-> params.vectors, quaternion |-> q]
              c    == rotatePointsOnHeap(heap, args.points, args.quaternion)
          IN  /\ heap' = c.heap
              /\ params' = [params EXCEPT !.vectors = c.result]
              /\ out' = [fn |-> "rotatePoints", args |-> args, before |-> heap, result |-> c.result]
    /\ d' = d + 1
    /\ pc' = "rotatePoints"
    /\ UNCHANGED <<points, rotation, pan, canvas, landmarks3D, transformed, ui>>

EngineCircleOnPlane ==
    /\ d < MaxCalls
    /\ \E center \in {params.center, params.vectors[1], params.vectors[2]} :
          LET args == [center |-> center, normal |-> params.normal, radius |-> Num(2),
                        segments |-> 4]
              c    == circleOnPlaneOnHeap(heap, args.center, args.normal, args.radius, args.segments)
          IN  /\ heap' = c.heap
              /\ params' = [params EXCEPT !.vectors = <<c.result[1], c.result[2]>>]
              /\ out' = [fn |-> "circleOnPlane", args |-> args, before |-> heap, result |-> c.result]
    /\ d' = d + 1
    /\ pc' = "circleOnPlane"
    /\ UNCHANGED <<points, rotation, pan, canvas, landmarks3D, transformed, ui>>

EngineSplitFrontBack ==
    /\ d < MaxCalls
    /\ LET args == [points |-> params.polyline]
           c    == splitFrontBackOnHeap(heap, args.points)
       IN  /\ heap' = c.heap
           /\ params' = [params EXCEPT !.polyline = IF c.result.front = <<>> THEN @
                                                 ELSE c.result.front[1]]
           /\ out' = [fn |-> "splitFrontBack", args |-> args, before |-> heap, result |-> c.result]
    /\ d' = d + 1
    /\ pc' = "splitFrontBack"
    /\ UNCHANGED <<points, rotation, pan, canvas, landmarks3D, transformed, ui>>

EngineClipToSideBand ==
    /\ d < MaxCalls
    /\ LET args == [points |-> params.polyline, d |-> 2]
           c    == clipToSideBandOnHeap(heap, args.points, args.d)
       IN  /\ heap' = c.heap
           /\ params' = [params EXCEPT !.polyline = IF c.result = <<>> THEN @ ELSE c.result[1]]
           /\ out' = [fn |-> "clipToSideBand", args |-> args, before |-> heap, result |-> c.result]
    /\ d' = d + 1
    /\ pc' = "clipToSideBand"
    /\ UNCHANGED <<points, rotation, pan, canvas, landmarks3D, transformed, ui>>

NextEngine ==
    \/ EngineCalculateLandmarks
    \/ EngineTransformLandmarks
    \/ EngineProjectLandmarks
    \/ EngineRotatePoints
    \/ EngineCircleOnPlane
    \/ EngineSplitFrontBack
    \/ EngineClipToSideBand

SpecEngine == InitEngine /\ [][NextEngine]_vars

\* the pointer, the control mode buttons and the image buttons: points
\* holds the pointerdown event of the drag in progress with the control mode
\* it met, d counts the moves that changed something

PointerCoordinates == {<<0, 0>>, <<1, 2>>}

\* left button, right button, left button with Shift
ButtonsAndKeys == {<<0, FALSE>>, <<2, FALSE>>, <<0, TRUE>>}

HDCanvas == [width |-> 1920, height |-> 1080]

InitControls ==
    /\ points = <<>>
    /\ d = 0
    /\ params = DefaultParams
    /\ out = <<>>
    /\ rotation = NewQuaternion
    /\ pan = [x |-> Num(0), y |-> Num(0)]
    /\ canvas = HDCanvas
    /\ landmarks3D = <<>>
    /\ transformed = <<>>
    /\ ui = InitialUi
    /\ heap = <<>>
    /\ pc = "idle"

PointerDown ==
    /\ \E c \in PointerCoordinates, b \in ButtonsAndKeys :
          LET e == [clientX |-> c[1], clientY |-> c[2], button |-> b[1], shiftKey |-> b[2]]
          IN  /\ ui' = handlePointerDown(ui, e)
              /\ points' = << [e EXCEPT !.clientX = 0, !.clientY = 0] @@
                              [controlMode |-> ui.controlMode] >>
    /\ UNCHANGED <<d, params, rotation, pan, canvas, landmarks3D, transformed, out, pc, heap>>

PointerMove ==
    /\ d < MaxMoves
    /\ \E c \in PointerCoordinates :
          LET st == handlePointerMove([ui |-> ui, pan |-> pan, rotation |-> rotation],
                                      [clientX |-> c[1], clientY |-> c[2]])
          IN  /\ ui' = st.ui
              /\ pan' = st.pan
              /\ rotation' = st.rotation
              /\ d' = IF <<st.pan, st.rotation, st.ui.imagePos>> = <<pan, rotation, ui.imagePos>>
                      THEN d ELSE d + 1
    /\ UNCHANGED <<points, params, canvas, landmarks3D, transformed, out, pc, heap>>

\* pointerup or pointercancel
PointerUp ==
    /\ ui' = handlePointerUp(ui)
    /\ points' = <<>>
    /\ UNCHANGED <<d, params, rotation, pan, canvas, landmarks3D, transformed, out, pc, heap>>

\* the Canvas and Head buttons, and the Image button while an image is shown
SetControlMode ==
    /\ \E m \in {"canvas", "head", "image"} :
          /\ m = "image" => ui.backgroundImage # "null"
          /\ ui' = [ui EXCEPT !.controlMode = m]
    /\ UNCHANGED <<points, d, params, rotation, pan, canvas, landmarks3D, transformed, out, pc,
                   heap>>

\* natural size of an uploaded image
ImageSizes == {[naturalWidth |-> 1920, naturalHeight |-> 2160]}

ImageLoaded ==
    /\ \E img \in ImageSizes : ui' = handleImageUpload(ui, canvas, img)
    /\ UNCHANGED <<points, d, params, rotation, pan, canvas, landmarks3D, transformed, out, pc,
                   heap>>

\* the Clear Image button, shown while an image is loaded
ClearImage ==
    /\ ui.backgroundImage # "null"
    /\ ui' = clearImage(ui)
    /\ UNCHANGED <<points, d, params, rotation, pan, canvas, landmarks3D, transformed, out, pc,
                   heap>>

NextControls ==
    \/ PointerDown
    \/ PointerMove
    \/ PointerUp
    \/ SetControlMode
    \/ ImageLoaded
    \/ ClearImage

SpecControls == InitControls /\ [][NextControls]_vars

\* the wheel, the size controls, the control mode buttons and the image
\* buttons: d counts the wheel events

Wheel ==
    /\ d < MaxCalls
    /\ \E deltaY \in {-100, 100} :
          LET st == handleWheel([ui |-> ui, radius |-> params.radius], deltaY)
          IN  /\ ui' = st.ui
              /\ params' = [params EXCEPT !.radius = st.radius]
    /\ d' = d + 1
    /\ UNCHANGED <<points, rotation, pan, canvas, landmarks3D, transformed, out, pc, heap>>

\* the Head size slider, from 20 to 2000
SetRadius ==
    /\ \E r \in {20, 21, 2000} : params' = [params EXCEPT !.radius = Num(r)]
    /\ UNCHANGED <<points, d, rotation, pan, canvas, landmarks3D, transformed, out, pc, ui,
                   heap>>

\* the Reset Size button
ResetSize ==
    /\ params' = [params EXCEPT !.radius = Num(100)]
    /\ UNCHANGED <<points, d, rotation, pan, canvas, landmarks3D, transformed, out, pc, ui,
                   heap>>

NextWheel ==
    \/ Wheel
    \/ SetRadius
    \/ ResetSize
    \/ SetControlMode
    \/ ImageLoaded
    \/ ClearImage

SpecWheel == InitControls /\ [][NextWheel]_vars

\* the page with the Scene effect and the landmark overlay: pc tells
\* whether the effect is due to run, points holds the pointer deltas of the
\* pan drags since the last Reset Pan, d counts the changes

PageParams == {DefaultParams, [DefaultParams EXCEPT !.radius = Num(95)]}

PageRotations ==
    {NewQuaternion, Quaternion(Num(0), Num(1), Num(0), Num(0)),
     Quaternion(Q(1, 2), Q(1, 2), Q(1, 2), Q(1, 2))}

\* pointer deltas of a move, whole and half pixels
PointerDeltas == {<<Num(3), Num(-2)>>, <<Q(1, 2), Q(-1, 2)>>}

\* landmarks whose dots the mouse visits
HoverNames == {"Crown", "Nose Center", "Jaw Start Left"}

InitPage ==
    /\ points = <<>>
    /\ d = 0
    /\ params = DefaultParams
    /\ out = <<>>
    /\ rotation = NewQuaternion
    /\ pan = [x |-> Num(0), y |-> Num(0)]
    /\ canvas = HDCanvas
    /\ landmarks3D = <<>>
    /\ transformed = <<>>
    /\ ui = InitialUi
    /\ heap = <<>>
    /\ pc = "dirty"

\* a slider, the wheel in head mode or Reset Size
ParamChanged ==
    /\ d < MaxMoves
    /\ \E p \in PageParams \ {params} : params' = p
    /\ d' = d + 1
    /\ pc' = "dirty"
    /\ UNCHANGED <<points, rotation, pan, canvas, landmarks3D, transformed, out, ui, heap>>

\* a rotate drag, a rotation button or Reset Rotation
RotationChanged ==
    /\ d < MaxMoves
    /\ \E q \in PageRotations \ {rotation} : rotation' = q
    /\ d' = d + 1
    /\ pc' = "dirty"
    /\ UNCHANGED <<points, params, pan, canvas, landmarks3D, transformed, out, ui, heap>>

\* faulty variant: the pan changes without the effect being told
PanDragUntracked ==
    /\ d < MaxMoves
    /\ \E delta \in PointerDeltas :
          /\ pan' = applyPan(pan, delta[1], NumNeg(delta[2]))
          /\ points' = Append(points, delta)
    /\ d' = d + 1
    /\ UNCHANGED <<params, rotation, canvas, landmarks3D, transformed, out, pc, ui, heap>>

\* a move of a pan drag
PanDrag ==
    /\ d < MaxMoves
    /\ \E delta \in PointerDeltas :
          /\ pan' = applyPan(pan, delta[1], NumNeg(delta[2]))
          /\ points' = Append(points, delta)
    /\ d' = d + 1
    /\ pc' = "dirty"
    /\ UNCHANGED <<params, rotation, canvas, landmarks3D, transformed, out, ui, heap>>

\* the Reset Pan button
ResetPan ==
    /\ d < MaxMoves
    /\ pan' = [x |-> Num(0), y |-> Num(0)]
    /\ points' = <<>>
    /\ d' = d + 1
    /\ pc' = "dirty"
    /\ UNCHANGED <<params, rotation, canvas, landmarks3D, transformed, out, ui, heap>>

\* a canvas preset or a custom size
CanvasChanged ==
    /\ d < MaxMoves
    /\ \E cv \in Canvases \ {canvas} : canvas' = cv
    /\ d' = d + 1
    /\ pc' = "dirty"
    /\ UNCHANGED <<points, params, rotation, pan, landmarks3D, transformed, out, ui, heap>>

\* the Scene effect runs and calls onLandmarksUpdate
LandmarksEffect ==
    /\ pc = "dirty"
    /\ onLandmarksUpdate
    /\ landmarks3D' = calculateLandmarks(params)
    /\ transformed' = transformLandmarks(landmarks3D', rotation, pan)
    /\ out' = SceneLandmarks(params, rotation, pan, canvas)
    /\ ui' = [ui EXCEPT !.projectedLandmarks = out']
    /\ pc' = "clean"
    /\ UNCHANGED <<points, d, params, rotation, pan, canvas, heap>>

\* the Show landmarks checkbox; the overlay's state goes with the overlay
ToggleShowLandmarks ==
    /\ ui' = [ui EXCEPT !.showLandmarks = ~@,
                        !.hoveredLandmark = IF ui.showLandmarks THEN NoLandmark ELSE @]
    /\ UNCHANGED <<points, d, params, rotation, pan, canvas, landmarks3D, transformed, out, pc, heap>>

MouseEnter ==
    /\ OverlayMounted(ui)
    /\ \E k \in 1..Len(ui.projectedLandmarks) :
          /\ ui.projectedLandmarks[k].name \in HoverNames
          /\ DotDrawn(ui.projectedLandmarks[k], canvas)
          /\ ui' = handleMouseEnter(ui, ui.projectedLandmarks[k])
    /\ UNCHANGED <<points, d, params, rotation, pan, canvas, landmarks3D, transformed, out, pc, heap>>

MouseLeave ==
    /\ OverlayMounted(ui)
    /\ ui' = handleMouseLeave(ui)
    /\ UNCHANGED <<points, d, params, rotation, pan, canvas, landmarks3D, transformed, out, pc, heap>>

NextPage ==
    \/ ParamChanged
    \/ RotationChanged
    \/ PanDrag
    \/ ResetPan
    \/ CanvasChanged
    \/ LandmarksEffect
    \/ ToggleShowLandmarks
    \/ MouseEnter
    \/ MouseLeave

SpecPage == InitPage /\ [][NextPage]_vars

\* the steps of LandmarksEffect, told by pc: no other action clears it
EffectRuns == pc = "dirty" /\ pc' = "clean"

\* an effect that is due is flushed: it runs before the page goes idle
SpecPageFair == SpecPage /\ WF_pc(EffectRuns)

(* ----------------------- splitFrontBack: claims ----------------------- *)

\* the runs of a and b taken in turn, starting with a
RECURSIVE Merge(_, _)
Merge(a, b) == IF a = <<>> THEN Flatten(b) ELSE Head(a) \o Merge(b, Tail(a))

\* the number of places where the front/back classification of pts changes
Changes(pts) ==
    Cardinality({i \in 2..Len(pts) : (pts[i].z >= 0) # (pts[i - 1].z >= 0)})

\* C1: the front and back runs together hold as many points as the input, and
\* taking them in turn (front and back runs alternate along the input)
\* reproduces the input sequence exactly.
C1_RoundTrip ==
    pc = "done" =>
        /\ Len(Flatten(out.front)) + Len(Flatten(out.back)) = Len(points)
        /\ \/ Merge(out.front, out.back) = points
           \/ Merge(out.back, out.front) = points

C1_Witness ==
    /\ pc = "done"
    /\ Len(out.front) >= 2
    /\ Len(out.back) >= 1
    /\ Len(points) = MaxLen

\* C2: every point of a front run has z >= 0, every point of a back run has
\* z < 0, no run is empty, and the runs are maximal: there is exactly one run
\* more than there are classification changes along the input.
C2_Classification ==
    pc = "done" =>
        /\ \A r \in 1..Len(out.front) :
               /\ out.front[r] # <<>>
               /\ \A k \in 1..Len(out.front[r]) : out.front[r][k].z >= 0
        /\ \A r \in 1..Len(out.back) :
               /\ out.back[r] # <<>>
               /\ \A k \in 1..Len(out.back[r]) : out.back[r][k].z < 0
        /\ Len(out.front) + Len(out.back) =
               IF points = <<>> THEN 0 ELSE Changes(points) + 1

C2_Witness ==
    /\ pc = "done"
    /\ \E r \in 1..Len(out.front) : Len(out.front[r]) = 1 /\ out.front[r][1].z = 0
    /\ \E r \in 1..Len(out.back) : Len(out.back[r]) >= 2

(* ----------------------- clipToSideBand: claims ----------------------- *)

\* the point of the line through p and q whose x is b (p.x # q.x)
EdgePointAtX(p, q, b) ==
    Vector3(b,
            p.y + ((q.y - p.y) * (b - p.x)) \div (q.x - p.x),
            p.z + ((q.z - p.z) * (b - p.x)) \div (q.x - p.x))

Between(a, lo, hi) == (lo <= a /\ a <= hi) \/ (hi <= a /\ a <= lo)

\* a lies on the closed segment from p to q
OnSegment(a, p, q) ==
    /\ Between(a.x, p.x, q.x) /\ Between(a.y, p.y, q.y) /\ Between(a.z, p.z, q.z)
    /\ (a.x - p.x) * (q.y - p.y) = (a.y - p.y) * (q.x - p.x)
    /\ (a.x - p.x) * (q.z - p.z) = (a.z - p.z) * (q.x - p.x)
    /\ (a.y - p.y) * (q.z - p.z) = (a.z - p.z) * (q.y - p.y)

InBand(p) == Abs(p.x) <= d + EPS

NonDecreasing(s) == \A k \in 2..Len(s) : s[k - 1] <= s[k]

Xs(s) == [k \in 1..Len(s) |-> s[k].x]
Ys(s) == [k \in 1..Len(s) |-> s[k].y]

IsPrefix(a, b) == Len(a) <= Len(b) /\ SubSeq(b, 1, Len(a)) = a

\* C3: no point of any returned segment lies outside the band |x| <= d, up to
\* the tolerance EPS.
C3_InsideBand ==
    pc = "done" =>
        \A s \in 1..Len(out) : \A k \in 1..Len(out[s]) : Abs(out[s][k].x) <= d + EPS

C3_Witness ==
    /\ pc = "done"
    /\ out # <<>>
    /\ \E i \in 1..Len(points) : ~InBand(points[i])
    /\ \E i \in 1..Len(points) : Abs(points[i].x) > d /\ InBand(points[i])

\* C4: with d at least the largest |x| of a polyline of two or more points
\* the result is the one segment made of the input points in their order.
C4_NothingClipped ==
    (pc = "done" /\ Len(points) >= 2 /\ \A i \in 1..Len(points) : Abs(points[i].x) <= d)
        => out = <<points>>

C4_Witness ==
    /\ pc = "done"
    /\ Len(points) = MaxLen
    /\ \A i \in 1..Len(points) : Abs(points[i].x) <= d
    /\ \E i \in 1..Len(points) : Abs(points[i].x) = d
    /\ points[1] = points[Len(points)]
    /\ Len(out) = 1

\* C5, as claimed: with d = 0 a polyline whose points all have nonzero x
\* yields no segment.
C5_Original ==
    (pc = "done" /\ d = 0 /\ \A i \in 1..Len(points) : points[i].x # 0)
        => out = <<>>

\* the edges of pts whose endpoints lie on opposite sides of x = 0
CrossingEdges(pts) ==
    {i \in 2..Len(pts) : (pts[i - 1].x < 0 /\ pts[i].x > 0) \/ (pts[i - 1].x > 0 /\ pts[i].x < 0)}

\* C5, amended: with d = 0 a polyline whose points all have |x| > EPS yields
\* exactly one segment per edge that crosses x = 0, and that segment is
\* degenerate: two coincident points on x = 0.
C5_DegenerateOnly ==
    (pc = "done" /\ d = 0 /\ \A i \in 1..Len(points) : Abs(points[i].x) > EPS)
        => /\ Len(out) = Cardinality(CrossingEdges(points))
           /\ \A s \in 1..Len(out) :
                  Len(out[s]) = 2 /\ out[s][1] = out[s][2] /\ out[s][1].x = 0

C5_Witness ==
    /\ pc = "done"
    /\ d = 0
    /\ \A i \in 1..Len(points) : Abs(points[i].x) > EPS
    /\ Cardinality(CrossingEdges(points)) = 2
    /\ Len(out) = 2

\* C6: every returned segment has at least two points, an input of fewer than
\* two points yields nothing, and the output follows the traversal of the
\* input: along a polyline that never turns back in x (in y) the points of
\* the output, segment after segment, never turn back in x (in y) either.
C6_SegmentsOrdered ==
    pc = "done" =>
        /\ \A s \in 1..Len(out) : Len(out[s]) >= 2
        /\ Len(points) < 2 => out = <<>>
        /\ NonDecreasing(Xs(points)) => NonDecreasing(Xs(Flatten(out)))
        /\ NonDecreasing(Ys(points)) => NonDecreasing(Ys(Flatten(out)))

C6_Witness ==
    /\ pc = "done"
    /\ Len(out) >= 2
    /\ Len(points) = MaxLen
    /\ points[1].y < points[2].y
    /\ \E i \in 2..Len(points) : InBand(points[i]) /\ ~InBand(points[i - 1])

ExitEdge(i) == InBand(points[i - 1]) /\ ~InBand(points[i])
EnterEdge(i) == ~InBand(points[i - 1]) /\ InBand(points[i])

\* the boundary the outside endpoint q overshot
Overshot(q) == IF q.x > d THEN d ELSE -d

\* the exit edge i extends the current segment by its crossing and closes it
ExitInsertsCrossing(i) ==
    LET prev == points[i - 1]
        curr == points[i]
        A    == clipToSideBand(SubSeq(points, 1, i), d)
    IN  /\ A # <<>>
        /\ LET last == A[Len(A)]
           IN  /\ Len(last) >= 2
               /\ last[Len(last)] = EdgePointAtX(prev, curr, Overshot(curr))
               /\ last[Len(last) - 1] = prev
        /\ IsPrefix(A, out)

\* the enter edge i starts a new segment with its crossing and its inside endpoint
EnterInsertsCrossing(i) ==
    LET prev == points[i - 1]
        curr == points[i]
        B    == clipToSideBand(SubSeq(points, i - 1, Len(points)), d)
    IN  /\ B # <<>>
        /\ Len(B[1]) >= 2
        /\ B[1][1] = EdgePointAtX(prev, curr, Overshot(prev))
        /\ B[1][2] = curr
        /\ out = clipToSideBand(SubSeq(points, 1, i - 1), d) \o B

\* C7, as claimed: every exit edge appends its crossing with x = +d or -d,
\* every enter edge starts a segment with its crossing.
C7_Original ==
    pc = "done" =>
        \A i \in 2..Len(points) :
            /\ ExitEdge(i) => ExitInsertsCrossing(i)
            /\ EnterEdge(i) => EnterInsertsCrossing(i)

\* the inside endpoint p of an edge to the outside point q is not beyond the
\* boundary q overshot, so that the edge does reach that boundary
ReachesBoundary(p, q) == Between(Overshot(q), p.x, q.x)

\* C7, amended: an exit (enter) edge inserts its crossing whenever its inside
\* endpoint is not beyond the overshot boundary; when the inside endpoint lies
\* in the tolerance zone beyond that boundary no point is inserted: the exit
\* edge closes the segment as it is and the enter edge starts the new segment
\* with its inside endpoint alone.
C7_Crossings ==
    pc = "done" =>
        \A i \in 2..Len(points) :
            LET prev == points[i - 1]
                curr == points[i]
            IN  /\ (ExitEdge(i) /\ ReachesBoundary(prev, curr)) => ExitInsertsCrossing(i)
                /\ (ExitEdge(i) /\ ~ReachesBoundary(prev, curr)) =>
                       /\ clipToSideBand(SubSeq(points, 1, i), d)
                              = clipToSideBand(SubSeq(points, 1, i - 1), d)
                       /\ IsPrefix(clipToSideBand(SubSeq(points, 1, i), d), out)
                /\ (EnterEdge(i) /\ ReachesBoundary(curr, prev)) => EnterInsertsCrossing(i)
                /\ (EnterEdge(i) /\ ~ReachesBoundary(curr, prev)) =>
                       out = clipToSideBand(SubSeq(points, 1, i - 1), d)
                                 \o clipToSideBand(SubSeq(points, i, Len(points)), d)

C7_Witness ==
    /\ pc = "done"
    /\ d > 0
    /\ Len(points) = MaxLen
    /\ EnterEdge(2) /\ ReachesBoundary(points[2], points[1])
    /\ ExitEdge(3) /\ ReachesBoundary(points[2], points[3])
    /\ points[1].x < 0 /\ points[3].x < 0
    /\ Len(out) = 1 /\ Len(out[1]) = 3

\* what an edge with both endpoints outside the band contributes
SpanningSegment(prev, curr) ==
    IF prev.x < -d /\ curr.x > d
    THEN << <<EdgePointAtX(prev, curr, -d), EdgePointAtX(prev, curr, d)>> >>
    ELSE IF prev.x > d /\ curr.x < -d
    THEN << <<EdgePointAtX(prev, curr, d), EdgePointAtX(prev, curr, -d)>> >>
    ELSE <<>>

\* C8: an edge with both endpoints outside the band contributes, between what
\* precedes and what follows it, one segment of its two crossings in the
\* direction of travel when the endpoints lie on opposite sides, and nothing
\* when they lie on the same side.
C8_SpanningEdge ==
    pc = "done" =>
        \A i \in 2..Len(points) :
            (~InBand(points[i - 1]) /\ ~InBand(points[i])) =>
                out = clipToSideBand(SubSeq(points, 1, i - 1), d)
                          \o SpanningSegment(points[i - 1], points[i])
                          \o clipToSideBand(SubSeq(points, i, Len(points)), d)

C8_Witness ==
    /\ pc = "done"
    /\ d > 0
    /\ Len(points) = MaxLen
    /\ ~InBand(points[2]) /\ ~InBand(points[3])
    /\ points[2].x > d /\ points[3].x < -d
    /\ points[2].y # points[3].y
    /\ Len(out) = 2

\* C9: the polyline is open: any two neighbouring points of a returned segment
\* lie on one edge (points[i-1], points[i]) of the input, so nothing is
\* produced for an edge from the last point back to the first.
C9_OpenPolyline ==
    pc = "done" =>
        \A s \in 1..Len(out) : \A k \in 2..Len(out[s]) :
            \E i \in 2..Len(points) :
                /\ OnSegment(out[s][k - 1], points[i - 1], points[i])
                /\ OnSegment(out[s][k], points[i - 1], points[i])

C9_Witness ==
    /\ pc = "done"
    /\ Len(points) = MaxLen
    /\ InBand(points[1]) /\ InBand(points[Len(points)])
    /\ ~OnSegment(points[1], points[Len(points) - 1], points[Len(points)])
    /\ out # <<>>

(* ---------------------- calculateLandmarks: claims -------------------- *)

\* the names of the contract, in order
LandmarkNames ==
    << "Sphere Center", "Crown", "Hairline", "Brow",
       "Eye Center", "Eye Left", "Eye Right",
       "Nose Center", "Nose Left", "Nose Right",
       "Mouth Center", "Mouth Left", "Mouth Right",
       "Chin", "Chin Left", "Chin Right",
       "Jaw Start Left", "Jaw Start Right", "Jaw Drop Left", "Jaw Drop Right" >>

Names(lms) == [k \in 1..Len(lms) |-> lms[k].name]

\* C10, as claimed: calculateLandmarks returns exactly 21 landmarks.
C10_Original == pc = "done" => Len(out) = 21

\* C10, amended: whatever the parameters, calculateLandmarks returns exactly
\* 20 landmarks, named as the contract lists them and in that order.
C10_FixedNames == pc = "done" => (Len(out) = 20 /\ Names(out) = LandmarkNames)

C10_Witness ==
    /\ pc = "done"
    /\ params # DefaultParams
    /\ \E k \in 1..Len(out) : ~FinitePosition(out[k])
    /\ Len(out) = 20

(* ------------------------ the pipeline: claims ------------------------ *)

Distinct(seq) == \A i, j \in 1..Len(seq) : seq[i] = seq[j] => i = j

\* C11: the landmarks of one evaluation have pairwise different names, and
\* the transformed and the projected lists carry the same names, in the same
\* order and number.
C11_NamesKept ==
    pc = "done" =>
        /\ Distinct(Names(landmarks3D))
        /\ Names(transformed) = Names(landmarks3D)
        /\ Names(out) = Names(landmarks3D)

C11_Witness ==
    /\ pc = "done"
    /\ rotation # NewQuaternion
    /\ Len(out) = 20
    /\ \E k \in 1..Len(out) : ~out[k].visible
    /\ \E k \in 1..Len(out) : out[k].visible

WithName(lms, nm) == lms[CHOOSE k \in 1..Len(lms) : lms[k].name = nm]

\* C12: with radius > 0 and sideCut > 1 the rim radius is 0 (the jaw starts
\* lie at height 0) and every coordinate of every landmark and of its
\* projection is finite.
C12_Clamped ==
    (pc = "done" /\ NumGt(params.radius, Num(0)) /\ NumGt(params.sideCut, Num(1))) =>
        /\ WithName(landmarks3D, "Jaw Start Left").position.y = Num(0)
        /\ WithName(landmarks3D, "Jaw Start Right").position.y = Num(0)
        /\ \A k \in 1..Len(landmarks3D) : FinitePosition(landmarks3D[k])
        /\ \A k \in 1..Len(out) : IsFinite(out[k].x) /\ IsFinite(out[k].y)

NumBetween(a, lo, hi) == (NumGe(a, lo) /\ NumGe(hi, a)) \/ (NumGe(a, hi) /\ NumGe(lo, a))

\* position ratios at which the face curve is sampled, in hundredths
RatioSamples == {-100, -92, -70, -50, -20, -1, 0, 20, 100}

\* the face curve at the sampled ratios and at the feature centres; atChin(y,
\* chinY, chinZ, radius) says when the depth is to equal chinZ
FaceCurve(atChin(_, _, _, _)) ==
    (pc = "done" /\ NumGe(params.chinPos, Num(0))) =>
        LET radius == params.radius
            chinY  == NumSub(NumNeg(radius), NumMul(params.chinPos, radius))
            chinZ  == NumSub(radius, NumMul(params.chinLineCurve, radius))
        IN  /\ \A r \in RatioSamples :
                   LET y == NumMul(Pct(r), radius)
                       t == NumDiv(y, chinY)
                       z == getFaceCurveZ(y, radius, chinY, chinZ)
                   IN  IF r >= 0 THEN z = radius
                       ELSE /\ NumGe(t, Num(0)) /\ NumGe(Num(1), t)
                            /\ z = NumAdd(radius, NumMul(NumMul(t, t), NumSub(chinZ, radius)))
                            /\ NumBetween(z, radius, chinZ)
                            /\ (z = chinZ) <=> atChin(y, chinY, chinZ, radius)
            /\ \A nm \in {"Eye Center", "Nose Center", "Mouth Center"} :
                   NumBetween(WithName(out, nm).position.z, radius, chinZ)

\* C13 as stated: at or above the equator the face curve is at the sphere's
\* front; for a position ratio in [-1, 0) and chinPos >= 0, t = y / chinY lies
\* in [0, 1], the depth is radius + t^2 (chinZ - radius), it lies between
\* radius and chinZ, and it is chinZ exactly when y = chinY; the centres of
\* the eye, nose and mouth lines lie between radius and chinZ in z.
C13_Original ==
    FaceCurve(LAMBDA y, chinY, chinZ, radius : y = chinY)

\* C13: as above, except that the depth is chinZ exactly when y = chinY or
\* chinZ = radius (a flat chin line, chinLineCurve = 0, puts the whole curve
\* at chinZ).
C13_FaceCurve ==
    FaceCurve(LAMBDA y, chinY, chinZ, radius : y = chinY \/ chinZ = radius)

C13_Witness ==
    /\ pc = "done"
    /\ params.chinPos = Num(0)
    /\ params.mouthPos = Num(-1)
    /\ params.chinLineCurve # Num(0)
    /\ WithName(out, "Mouth Center").position = WithName(out, "Chin").position
    /\ WithName(out, "Eye Center").position.z # params.radius

\* C14: for Eye, Nose, Mouth and Chin, with the centre at (0, y, zc), half
\* width w and curve depth c, Left is at (-w, y, zc - c) and Right at
\* (w, y, zc - c).
C14_LeftRight ==
    pc = "done" =>
        \A f \in {<<"Eye Center", "Eye Left", "Eye Right", params.eyeWidth, params.eyeCurve>>,
                  <<"Nose Center", "Nose Left", "Nose Right", params.noseWidth, params.noseCurve>>,
                  <<"Mouth Center", "Mouth Left", "Mouth Right", params.mouthWidth, params.mouthCurve>>,
                  <<"Chin", "Chin Left", "Chin Right", params.chinWidth, params.chinCurve>>} :
            LET centre == WithName(out, f[1]).position
                w      == NumMul(f[4], params.radius)
                c      == NumMul(f[5], params.radius)
            IN  /\ centre.x = Num(0)
                /\ WithName(out, f[2]).position
                       = Vector3(NumNeg(w), centre.y, NumSub(centre.z, c))
                /\ WithName(out, f[3]).position
                       = Vector3(w, centre.y, NumSub(centre.z, c))

C14_Witness ==
    /\ pc = "done"
    /\ params.noseCurve # Num(0)
    /\ WithName(out, "Nose Left").position.x = NumNeg(WithName(out, "Nose Right").position.x)
    /\ WithName(out, "Nose Left").position.z # WithName(out, "Nose Center").position.z
    /\ WithName(out, "Mouth Center").position.z # params.radius

\* C15: the rotation comes first and the pan after it: each transformed
\* position is the rotated position plus (pan.x, pan.y, 0), so that, whatever
\* the rotation, the pan shifts x and y by exactly pan.x and pan.y and leaves
\* z and the visibility flag as they are without pan.
C15_RotateThenPan ==
    pc = "done" =>
        LET unpanned == transformLandmarks(landmarks3D, rotation, [x |-> Num(0), y |-> Num(0)])
            flags    == projectLandmarks(unpanned, canvas.width, canvas.height)
        IN  \A k \in 1..Len(landmarks3D) :
                /\ transformed[k].position
                       = VecAdd(applyQuaternion(landmarks3D[k].position, rotation),
                                Vector3(pan.x, pan.y, Num(0)))
                /\ transformed[k].position.x = NumAdd(unpanned[k].position.x, pan.x)
                /\ transformed[k].position.y = NumAdd(unpanned[k].position.y, pan.y)
                /\ transformed[k].position.z = unpanned[k].position.z
                /\ out[k].visible = flags[k].visible

C15_Witness ==
    /\ pc = "done"
    /\ rotation = Quaternion(Num(0), Num(0), Q(4, 5), Q(3, 5))
    /\ pan = [x |-> Num(10), y |-> Num(-5)]
    /\ \A k \in 1..Len(transformed) : FinitePosition(transformed[k])
    /\ transformed[2].position.x # NumAdd(landmarks3D[2].position.x, pan.x)

\* C16: with the identity rotation and no pan every transformed landmark
\* equals the landmark it comes from.
C16_Identity ==
    (pc = "done" /\ rotation = NewQuaternion /\ pan = [x |-> Num(0), y |-> Num(0)]) =>
        \A k \in 1..Len(landmarks3D) : transformed[k] = landmarks3D[k]

IsInteger(a) == a.d = 1

\* C17: each projected landmark has x = round(w/2 + px), y = round(h/2 - py)
\* and visible = (pz >= 0), x and y are integers, and a landmark at the
\* origin of a 1920 by 1080 canvas is projected to (960, 540, visible).
C17_Projection ==
    pc = "done" =>
        \A k \in 1..Len(transformed) :
            LET pos == transformed[k].position
            IN  /\ out[k].x = MathRound(NumAdd(Q(canvas.width, 2), pos.x))
                /\ out[k].y = MathRound(NumSub(Q(canvas.height, 2), pos.y))
                /\ out[k].visible = NumGe(pos.z, Num(0))
                /\ IsInteger(out[k].x) /\ IsInteger(out[k].y)
                /\ (pos = Vector3(Num(0), Num(0), Num(0))
                        /\ canvas = [width |-> 1920, height |-> 1080])
                       => (out[k].x = Num(960) /\ out[k].y = Num(540) /\ out[k].visible)

\* C18: with the default parameters, the identity rotation, no pan and a
\* 1920 by 1080 canvas the Crown is projected to (960, 440) and is visible.
C18_Crown ==
    ( /\ pc = "done"
      /\ params = DefaultParams
      /\ rotation = NewQuaternion
      /\ pan = [x |-> Num(0), y |-> Num(0)]
      /\ canvas = [width |-> 1920, height |-> 1080] ) =>
        WithName(out, "Crown") = [name |-> "Crown", x |-> Num(960), y |-> Num(440),
                                  visible |-> TRUE]

C18_Witness ==
    /\ pc = "done"
    /\ params = DefaultParams
    /\ rotation = NewQuaternion
    /\ pan = [x |-> Num(0), y |-> Num(0)]
    /\ canvas = [width |-> 1920, height |-> 1080]
    /\ Len(out) = 20

(* ----------------------- circleOnPlane: claims ----------------------- *)

UnitCircleFacingZ ==
    params = [center |-> Vector3(Num(0), Num(0), Num(0)), normal |-> AxisZ,
              radius |-> Num(1), segments |-> 4]

\* C19: the circle of radius 1 about the origin with normal (0,0,1) and 4
\* segments is the 5 points (0,1,0), (-1,0,0), (0,-1,0), (1,0,0), (0,1,0) in
\* this order: the helper axis for n = Z is X, u = (0,1,0), v = (-1,0,0), and
\* the list ends where it starts.
C19_UnitCircle ==
    (pc = "circle" /\ UnitCircleFacingZ) =>
        /\ out = << Vector3(Num(0), Num(1), Num(0)), Vector3(Num(-1), Num(0), Num(0)),
                    Vector3(Num(0), Num(-1), Num(0)), Vector3(Num(1), Num(0), Num(0)),
                    Vector3(Num(0), Num(1), Num(0)) >>
        /\ helperAxis(normalize(params.normal)) = AxisX
        /\ basisFromNormal(normalize(params.normal))
               = << Vector3(Num(0), Num(1), Num(0)), Vector3(Num(-1), Num(0), Num(0)) >>
        /\ out[1] = out[Len(out)]

C19_Witness ==
    /\ pc = "circle"
    /\ UnitCircleFacingZ
    /\ Len(out) = 5

\* axis is the standard axis along which n is smallest in absolute value,
\* the first such in the order X, Y, Z
SmallestComponentAxis(n, axis) ==
    LET along(a) == NumAbs(dot(n, a))
        order    == <<AxisX, AxisY, AxisZ>>
    IN  \E k \in 1..3 :
            /\ axis = order[k]
            /\ \A j \in 1..3 : NumGe(along(order[j]), along(axis))
            /\ \A j \in 1..(k - 1) : NumGt(along(order[j]), along(axis))

\* C20: for each of the six axis-aligned unit normals n, the helper axis is
\* not parallel to n (it is the standard axis with the smallest |component| of
\* n, ties broken X, then Y, then Z), and u and v are of unit length with
\* u.v = 0, u.n = 0 and v.n = 0.
C20_OrthonormalBasis ==
    (pc = "basis" /\ params.normal \in AxisNormals) =>
        LET n    == params.normal
            axis == helperAxis(n)
            u    == out[1]
            v    == out[2]
        IN  /\ crossVectors(n, axis) # Vector3(Num(0), Num(0), Num(0))
            /\ SmallestComponentAxis(n, axis)
            /\ dot(u, u) = Num(1)
            /\ dot(v, v) = Num(1)
            /\ dot(u, v) = Num(0)
            /\ dot(u, n) = Num(0)
            /\ dot(v, n) = Num(0)

C20_Witness ==
    /\ pc = "basis"
    /\ params.normal = multiplyScalar(AxisY, Num(-1))
    /\ Len(out) = 2
    /\ out[1] # out[2]

(* -------------------------- splitLine: claims -------------------------- *)

\* p lies on the segment from a to b
OnLine(p, a, b) ==
    \E k \in {"x", "y", "z"} :
        /\ a[k] # b[k]
        /\ LET t == NumDiv(NumSub(p[k], a[k]), NumSub(b[k], a[k]))
           IN  /\ NumGe(t, Num(0)) /\ NumGe(Num(1), t)
               /\ p = lerpVectors(a, b, t)

\* C22: two ends on the same side give one piece <<p1, p2>>, in front if both
\* have z >= 0 and in back if both have z < 0; two ends on opposite sides give
\* one front piece and one back piece that share an end lying on the line
\* from p1 to p2 at z = 0, the front piece holding the end with z >= 0 and
\* the back piece the end with z < 0.
C22_SplitLine ==
    pc = "done" =>
        LET p1     == points[1]
            p2     == points[2]
            f1     == NumGe(p1.z, Num(0))
            f2     == NumGe(p2.z, Num(0))
            pieces == out.front \o out.back
        IN  /\ (f1 /\ f2) => (out.front = << <<p1, p2>> >> /\ out.back = <<>>)
            /\ (~f1 /\ ~f2) => (out.back = << <<p1, p2>> >> /\ out.front = <<>>)
            /\ (f1 # f2) =>
                   /\ Len(out.front) = 1 /\ Len(out.back) = 1
                   /\ Len(out.front[1]) = 2 /\ Len(out.back[1]) = 2
                   /\ \E mid \in {out.front[1][1], out.front[1][2]} :
                          /\ mid \in {out.back[1][1], out.back[1][2]}
                          /\ mid.z = Num(0)
                          /\ OnLine(mid, p1, p2)
                   /\ (IF f1 THEN p1 ELSE p2) \in {out.front[1][1], out.front[1][2]}
                   /\ (IF f1 THEN p2 ELSE p1) \in {out.back[1][1], out.back[1][2]}

C22_Witness ==
    /\ pc = "done"
    /\ NumGt(Num(0), points[1].z)
    /\ NumGt(points[2].z, Num(0))
    /\ points[1].x # points[2].x
    /\ Len(out.front) = 1
    /\ Len(out.back) = 1
    /\ out.front[1][1] = out.back[1][2]
    /\ out.front[1][1] \notin {points[1], points[2]}

(* ----------------------- the rotation store: claims ----------------------- *)

\* head-space points on which two orientations are compared
ProbePoints ==
    {Vector3(Num(1), Num(0), Num(0)), Vector3(Num(0), Num(1), Num(0)),
     Vector3(Num(0), Num(0), Num(1)), Vector3(Num(1), Num(2), Num(3))}

\* C25: after applyRotation(axis, angle) on the orientation q a head-space
\* point p ends at d(q(p)), after applyLocalRotation at q(d(p)), with d the
\* rotation about axis by angle; after resetRotation the orientation is the
\* identity, whatever came before.
C25_WorldAndLocal ==
    /\ pc = "applyRotation" =>
           \A p \in ProbePoints :
               applyQuaternion(p, rotation)
                   = applyQuaternion(applyQuaternion(p, out.before),
                                     setFromAxisAngle(out.axis, out.angle))
    /\ pc = "applyLocalRotation" =>
           \A p \in ProbePoints :
               applyQuaternion(p, rotation)
                   = applyQuaternion(applyQuaternion(p, setFromAxisAngle(out.axis, out.angle)),
                                     out.before)
    /\ pc = "resetRotation" =>
           /\ rotation = NewQuaternion
           /\ \A p \in ProbePoints : applyQuaternion(p, rotation) = p

\* the two orders give different orientations here
C25_Witness ==
    /\ pc = "applyRotation"
    /\ d = 2
    /\ out.before # NewQuaternion
    /\ rotation # applyLocalRotation(out.before, out.axis, out.angle)
    /\ \E p \in ProbePoints :
           applyQuaternion(p, rotation)
               # applyQuaternion(applyQuaternion(p, setFromAxisAngle(out.axis, out.angle)),
                                 out.before)

(* ----------------------- the engine on objects: claims ----------------------- *)

\* the call fn(a) on the heap h
EngineCall(fn, h, a) ==
    CASE fn = "calculateLandmarks" -> calculateLandmarksOnHeap(h, a.p)
      [] fn = "transformLandmarks" -> transformLandmarksOnHeap(h, a.landmarks, a.rotation, a.pan)
      [] fn = "projectLandmarks"   ->
             projectLandmarksOnHeap(h, a.landmarks, a.canvasWidth, a.canvasHeight)
      [] fn = "rotatePoints"       -> rotatePointsOnHeap(h, a.points, a.quaternion)
      [] fn = "circleOnPlane"      ->
             circleOnPlaneOnHeap(h, a.center, a.normal, a.radius, a.segments)
      [] fn = "splitFrontBack"     -> splitFrontBackOnHeap(h, a.points)
      [] fn = "clipToSideBand"     -> clipToSideBandOnHeap(h, a.points, a.d)

SegmentValues(h, segs) == [i \in 1..Len(segs) |-> Values(h, segs[i])]

\* the result res of fn with the coordinates its references point to in h
ResultValues(fn, h, res) ==
    CASE fn \in {"calculateLandmarks", "transformLandmarks"} -> LandmarkValues(h, res)
      [] fn = "projectLandmarks"                    -> res
      [] fn \in {"rotatePoints", "circleOnPlane"}   -> Values(h, res)
      [] fn = "splitFrontBack"                      ->
             [front |-> SegmentValues(h, res.front), back |-> SegmentValues(h, res.back)]
      [] fn = "clipToSideBand"                      -> SegmentValues(h, res)

\* what fn returns for the coordinates the arguments a have in h
ValueCall(fn, h, a) ==
    CASE fn = "calculateLandmarks" -> calculateLandmarks(a.p)
      [] fn = "transformLandmarks" ->
             transformLandmarks(LandmarkValues(h, a.landmarks), a.rotation, a.pan)
      [] fn = "projectLandmarks"   ->
             projectLandmarks(LandmarkValues(h, a.landmarks), a.canvasWidth, a.canvasHeight)
      [] fn = "rotatePoints"       -> rotatePoints(Values(h, a.points), a.quaternion)
      [] fn = "circleOnPlane"      ->
             circleOnPlane(h[a.center].v, h[a.normal].v, a.radius, a.segments)
      [] fn = "splitFrontBack"     -> splitFrontBack(Values(h, a.points))
      [] fn = "clipToSideBand"     -> clipToSideBand(Values(h, a.points), a.d)

\* C21: an engine call leaves every object that existed before it, the
\* caller's first objects and the parameter record with the coordinates they
\* had, it returns what the function gives for the arguments' coordinates,
\* and the same call made again returns an equal result.
C21_InputsKept ==
    d > 0 =>
        LET again == EngineCall(out.fn, heap, out.args)
        IN  /\ \A a \in 1..Len(out.before) : heap[a] = out.before[a]
            /\ \A a \in 1..Len(InitialHeap) : heap[a] = InitialHeap[a]
            /\ params.head = DefaultParams
            /\ ResultValues(out.fn, heap, out.result) = ValueCall(out.fn, out.before, out.args)
            /\ ResultValues(out.fn, again.heap, again.result)
                   = ResultValues(out.fn, heap, out.result)

\* a transform of landmarks that an earlier call returned
C21_Witness ==
    /\ d >= 2
    /\ pc = "transformLandmarks"
    /\ Len(out.args.landmarks) = 20
    /\ Len(heap) > Len(out.before)
    /\ \E k \in 1..20 : heap[out.result[k].position] # heap[out.args.landmarks[k].position]

(* ------------------------- the pointer: claims ------------------------- *)

ZeroPan == [x |-> Num(0), y |-> Num(0)]

\* the pointerdown event that started the drag in progress
DragStart == points[1]

Dragging == points # <<>>

StartedPan ==
    DragStart.controlMode \in {"canvas", "head"} /\ DragStart.button # 2 /\ ~DragStart.shiftKey

StartedRotate ==
    DragStart.controlMode \in {"canvas", "head"} /\ (DragStart.button = 2 \/ DragStart.shiftKey)

StartedImage == DragStart.controlMode = "image"

\* how far a move of a drag took the pointer
MovedX == ui'.lastX - ui.lastX

MovedY == ui'.lastY - ui.lastY

C28_DragStateMachine ==
    /\ [](IF Dragging
          THEN /\ ui.isDragging
               /\ ui.isPanning = StartedPan
               /\ ui.isImageDragging = StartedImage
          ELSE ~ui.isDragging /\ ~ui.isPanning /\ ~ui.isImageDragging)
    /\ [][/\ (PointerMove /\ ~Dragging) =>
                 (pan' = pan /\ rotation' = rotation /\ ui'.imagePos = ui.imagePos)
          /\ (PointerMove /\ Dragging) =>
                 /\ pan' # pan => StartedPan
                 /\ rotation' # rotation => StartedRotate
                 /\ ui'.imagePos # ui.imagePos => StartedImage
                 /\ <<ui'.isPanning, ui'.isImageDragging>> = <<ui.isPanning, ui.isImageDragging>>
          /\ PointerUp =>
                 (~ui'.isDragging /\ ~ui'.isPanning /\ ~ui'.isImageDragging)
         ]_vars

\* an image drag goes on after the control mode was switched during it
C28_Witness ==
    /\ Dragging
    /\ StartedImage
    /\ ui.controlMode = "canvas"
    /\ ui.imagePos = [x |-> Num(1), y |-> Num(2)]
    /\ pan = ZeroPan
    /\ rotation = NewQuaternion

(* -------------------------- the wheel: claims -------------------------- *)

\* C26: the radius stays within [20, 2000], so it is positive; a wheel event
\* changes the radius only in head mode, changes imageScale only in image
\* mode with an image loaded, and changes nothing but canvasZoom otherwise.
C26_RadiusBounds ==
    /\ [](/\ NumGe(params.radius, Num(20))
          /\ NumGe(Num(2000), params.radius)
          /\ NumGt(params.radius, Num(0)))
    /\ [][Wheel =>
             /\ params'.radius # params.radius => ui.controlMode = "head"
             /\ ui'.imageScale # ui.imageScale
                    => (ui.controlMode = "image" /\ ui.backgroundImage # "null")
             /\ (ui.controlMode # "head"
                    /\ ~(ui.controlMode = "image" /\ ui.backgroundImage # "null"))
                    => (/\ params' = params
                        /\ ui' = [ui EXCEPT !.canvasZoom = ui'.canvasZoom])
             /\ ui.controlMode = "head" => ui' = ui
             /\ (ui.controlMode = "image" /\ ui.backgroundImage # "null")
                    => (/\ params' = params
                        /\ ui' = [ui EXCEPT !.imageScale = ui'.imageScale])
         ]_vars

\* the wheel has held the radius at the upper end and then shrunk it
C26_Witness ==
    /\ ui.controlMode = "head"
    /\ params.radius = Num(1900)
    /\ ui.canvasZoom = Q(1, 2)
    /\ d = 2

\* C29: the control mode is image only while an image is loaded.
C29_ImageModeHasImage ==
    ui.controlMode = "image" => ui.backgroundImage # "null"

(* --------------------------- the page: claims --------------------------- *)

\* the list for the values the stores and the page hold now
CurrentLandmarks ==
    projectLandmarks(transformLandmarks(calculateLandmarks(params), rotation, pan),
                     canvas.width, canvas.height)

\* C24: every change of a head parameter, of headRotation, of headPan or of
\* the canvas size is followed by a call of the landmark callback, each call
\* delivers the list computed from the values all of them have at that
\* moment, and while no effect is due the delivered list is the current one.
C24_Reactive ==
    /\ [](pc = "clean" => ui.projectedLandmarks = CurrentLandmarks)
    /\ [][LandmarksEffect => ui'.projectedLandmarks = CurrentLandmarks]_vars
    /\ (pc = "dirty") ~> (pc = "clean" /\ ui.projectedLandmarks = CurrentLandmarks)

\* two stores changed before the effect ran once for both
C24_Witness ==
    /\ pc = "clean"
    /\ d = 2
    /\ rotation # NewQuaternion
    /\ pan # ZeroPan
    /\ ui.projectedLandmarks = out
    /\ Len(out) = 20

RECURSIVE SumX(_), SumY(_)
SumX(deltas) == IF deltas = <<>> THEN Num(0) ELSE NumAdd(Head(deltas)[1], SumX(Tail(deltas)))

SumY(deltas) == IF deltas = <<>> THEN Num(0) ELSE NumAdd(Head(deltas)[2], SumY(Tail(deltas)))

\* the list without pan, for the orientation and the parameters of now
UnpannedLandmarks ==
    projectLandmarks(transformLandmarks(calculateLandmarks(params), rotation, ZeroPan),
                     canvas.width, canvas.height)

PanIsSumOfDrags == pan = [x |-> SumX(points), y |-> NumNeg(SumY(points))]

\* C27 as stated: headPan is (sum of dx, minus sum of dy) over the pan drags
\* since the last resetPan, and every projected landmark differs from its
\* unpanned projection by exactly (sum of dx, sum of dy), with the same
\* visible flag.
C27_Original ==
    /\ PanIsSumOfDrags
    /\ pc = "clean" =>
           \A k \in 1..Len(out) :
               /\ out[k].x = NumAdd(UnpannedLandmarks[k].x, SumX(points))
               /\ out[k].y = NumAdd(UnpannedLandmarks[k].y, SumY(points))
               /\ out[k].visible = UnpannedLandmarks[k].visible

\* C27: headPan is (sum of dx, minus sum of dy) over the pan drags since the
\* last resetPan; every projected landmark is the rounded sum of its unpanned,
\* unrounded canvas position and (sum of dx, sum of dy), with the same
\* visible flag, and so differs from its unpanned projection by exactly
\* (sum of dx, sum of dy) when the sums are whole pixels.
C27_PanDrags ==
    /\ PanIsSumOfDrags
    /\ pc = "clean" =>
           LET unpanned == transformLandmarks(calculateLandmarks(params), rotation, ZeroPan)
           IN  \A k \in 1..Len(out) :
                   LET cx == NumAdd(Q(canvas.width, 2), unpanned[k].position.x)
                       cy == NumSub(Q(canvas.height, 2), unpanned[k].position.y)
                   IN  /\ out[k].x = MathRound(NumAdd(cx, SumX(points)))
                       /\ out[k].y = MathRound(NumAdd(cy, SumY(points)))
                       /\ out[k].visible = UnpannedLandmarks[k].visible
                       /\ (IsInteger(SumX(points)) /\ IsInteger(SumY(points))) =>
                              /\ out[k].x = NumAdd(UnpannedLandmarks[k].x, SumX(points))
                              /\ out[k].y = NumAdd(UnpannedLandmarks[k].y, SumY(points))

\* two pan drags of whole pixels, delivered
C27_Witness ==
    /\ pc = "clean"
    /\ Len(points) = 2
    /\ pan = [x |-> Num(6), y |-> Num(4)]
    /\ Len(out) = 20
    /\ out # UnpannedLandmarks

\* the overlay draws the crosshair
CrosshairDrawn == OverlayMounted(ui) /\ ui.hoveredLandmark.name # "null"

\* C30: whenever the overlay draws a crosshair, it is at the projected (x, y)
\* of a landmark of the current list that is visible and within the canvas.
C30_CrosshairIsLive ==
    CrosshairDrawn =>
        \E k \in 1..Len(ui.projectedLandmarks) :
            /\ ui.projectedLandmarks[k].name = ui.hoveredLandmark.name
            /\ ui.projectedLandmarks[k].x = ui.hoveredLandmark.x
            /\ ui.projectedLandmarks[k].y = ui.hoveredLandmark.y
            /\ DotDrawn(ui.projectedLandmarks[k], canvas)

====
